---- MODULE Spec2Model ----
(***************************************************************************)
(* A model of the LHC FHIR Questionnaire version converter                 *)
(* (src/src/qnvconv.js, qnvconv_stu3_r4.js, qnvconv_r4_r5.js and the       *)
(* common helpers).                                                        *)
(*                                                                         *)
(* JSON values are modelled as records.  An optional field is a sequence   *)
(* of length 0 (the key is absent) or 1 (the key is present, with that     *)
(* value).  JavaScript object identity is modelled by a heap: a sequence   *)
(* of documents, a reference being an index into it.  heap[1] is the       *)
(* object the caller passed in.                                            *)
(***************************************************************************)
EXTENDS Integers, Sequences, FiniteSets, TLC

VARIABLES
    heap,          \* the objects allocated so far; heap[1] is the caller's document
    qnJson0,       \* the value of the caller's document when the call was made
    options,       \* the options argument of the converter
    api,           \* the entry point used: "getConverter" or "convert"
    vFrom,         \* the requested source version token
    vTo,           \* the requested target version token
    pc,            \* position of the call
    converters,    \* getConverter: the chain of converter functions
    versionChain,  \* chainedConverter._versionChain
    stepNo,        \* number of converters of the chain already run
    stepResult,    \* chainedConverter: stepResult
    finalResult,   \* chainedConverter: finalResult
    stepLog,       \* the step results merged so far, in order
    error          \* the exception raised, if any

vars == <<heap, qnJson0, options, api, vFrom, vTo, pc, converters, versionChain, stepNo, stepResult, finalResult, stepLog, error>>

---------------------------------------------------------------------------
(* Optional values, small helpers *)

None == <<>>

Some(v) == <<v>>

Has(o) == o # <<>>

Val(o) == o[1]

Abs(n) == IF n < 0 THEN -n ELSE n

Min2(a, b) == IF a < b THEN a ELSE b

SetMin(S) == CHOOSE m \in S : \A x \in S : m <= x

RECURSIVE Concat(_)
Concat(ss) ==
    IF ss = <<>> THEN <<>> ELSE Head(ss) \o Concat(Tail(ss))

StartsWith(s, p) ==
    Len(p) <= Len(s) /\ SubSeq(s, 1, Len(p)) = p

---------------------------------------------------------------------------
(* Status codes and messages: qnvconv_common.js *)

StatusCodes == {1, 0, -1, -2}

\* createMsg(idOrCtx, status, text) for an item or resource context:
\* ctxId is linkId, else id, else 'unknown'.
createMsg(ctx, status, text) ==
    [jsType |-> "object",
     ctxId |-> IF Has(ctx.linkId) THEN Val(ctx.linkId)
               ELSE IF Has(ctx.id) THEN Val(ctx.id) ELSE "unknown",
     status |-> status,
     text |-> text]

\* A message that the code passes as a bare string instead of a message object.
strMsg(text) == [jsType |-> "string", text |-> text]

\* A variant of updateRetStatus that assigns the status without comparing it.
updateRetStatusAssign(ret, status, message) ==
    [ret EXCEPT
        !.status = status,
        !.message = IF Has(message)
                    THEN Some((IF Has(ret.message) THEN Val(ret.message) ELSE <<>>) \o Val(message))
                    ELSE ret.message]

\* A variant of updateRetStatus that keeps only the latest messages.
updateRetStatusReplace(ret, status, message) ==
    [ret EXCEPT
        !.status = IF status < ret.status THEN status ELSE ret.status,
        !.message = IF Has(message) THEN message ELSE ret.message]

\* updateRetStatus(ret, status, message) with message a list of messages
\* (None when the argument is undefined).
updateRetStatus(ret, status, message) ==
    [ret EXCEPT
        !.status = IF status < ret.status THEN status ELSE ret.status,
        !.message = IF Has(message)
                    THEN Some((IF Has(ret.message) THEN Val(ret.message) ELSE <<>>) \o Val(message))
                    ELSE ret.message]

\* updateRetStatus with a single message object.
updateRetStatus1(ret, status, msg) == updateRetStatus(ret, status, Some(<<msg>>))

---------------------------------------------------------------------------
(* The version registry: qnvconv.js *)

\* qnConverterTable; index is the 0-based position, as set by the map() call.
qnConverterTable ==
    << [ver |-> "STU3", up_conv |-> Some("qnR3ToR4"), down_conv |-> None,
        profile |-> "http://hl7.org/fhir/3.0/StructureDefinition/Questionnaire", index |-> 0],
       [ver |-> "R4", up_conv |-> Some("qnNoOpConv"), down_conv |-> Some("qnR4ToR3"),
        profile |-> "http://hl7.org/fhir/4.0/StructureDefinition/Questionnaire", index |-> 1],
       [ver |-> "R4B", up_conv |-> Some("qnR4ToR5"), down_conv |-> Some("qnNoOpConv"),
        profile |-> "http://hl7.org/fhir/4.3/StructureDefinition/Questionnaire", index |-> 2],
       [ver |-> "R5", up_conv |-> None, down_conv |-> Some("qnR5ToR4"),
        profile |-> "http://hl7.org/fhir/5.0/StructureDefinition/Questionnaire", index |-> 3] >>

\* supportedVersions: the own keys of qnConverterMap.
supportedVersions == {qnConverterTable[i].ver : i \in DOMAIN qnConverterTable}

\* Property names that the plain object literal {} behind qnConverterMap
\* inherits from Object.prototype (each one a function or an object: truthy,
\* and without an index property).
ObjectPrototypeKeys == {"constructor", "toString", "hasOwnProperty", "__proto__"}

\* Version tokens a caller may pass: the registered ones, unknown ones, and
\* names inherited by a plain object.
Tokens == supportedVersions \cup {"R6"} \cup {"constructor", "toString"}

\* qnConverterMap[v]: the table entry (Some), or None for undefined.  An
\* inherited property is reported by qnConverterMapTruthy below.
qnConverterMap(v) ==
    IF v \in supportedVersions
    THEN Some(CHOOSE e \in {qnConverterTable[i] : i \in DOMAIN qnConverterTable} : e.ver = v)
    ELSE None

\* The truthiness of qnConverterMap[v], as tested by !qnConverterMap[v].
qnConverterMapTruthy(v) == Has(qnConverterMap(v)) \/ v \in ObjectPrototypeKeys

\* qnConverterMap[v].index: None stands for undefined (an inherited property
\* has no index).
qnConverterMapIndex(v) ==
    IF Has(qnConverterMap(v)) THEN Some(Val(qnConverterMap(v)).index) ELSE None

\* A variant of vIndexChain that is one step short.
vIndexChainShort(vIndexFr, vIndexTo) ==
    [i \in 1..(Abs(vIndexTo - vIndexFr) - 1) |->
        vIndexFr + (IF vIndexFr < vIndexTo THEN i - 1 ELSE -(i - 1))]

\* vIndexChain of getConverter, for two defined indexes:
\* Array(|to - fr|).fill(0).map((_, i) => fr + (fr < to ? i : -i))
vIndexChain(vIndexFr, vIndexTo) ==
    [i \in 1..Abs(vIndexTo - vIndexFr) |->
        vIndexFr + (IF vIndexFr < vIndexTo THEN i - 1 ELSE -(i - 1))]

\* A variant of funcKey that ignores the direction.
funcKeyUp(vIndexFr, vIndexTo) == "up_conv"

\* funcKey of getConverter.
funcKey(vIndexFr, vIndexTo) == IF vIndexFr < vIndexTo THEN "up_conv" ELSE "down_conv"

\* qnConverterTable[vIndex][funcKey]
tableFunc(vIndex, key) ==
    IF key = "up_conv" THEN qnConverterTable[vIndex + 1].up_conv
    ELSE qnConverterTable[vIndex + 1].down_conv

\* The converters and the _versionChain of the chainedConverter that
\* getConverter builds for two defined indexes.
chainedConverter(vIndexFr, vIndexTo, t) ==
    [kind |-> "function",
     converters |-> [i \in DOMAIN vIndexChain(vIndexFr, vIndexTo) |->
                        tableFunc(vIndexChain(vIndexFr, vIndexTo)[i], funcKey(vIndexFr, vIndexTo))],
     versionChain |-> Append([i \in DOMAIN vIndexChain(vIndexFr, vIndexTo) |->
                                qnConverterTable[vIndexChain(vIndexFr, vIndexTo)[i] + 1].ver],
                             Val(qnConverterMap(t)).ver),
     error |-> ""]

\* getConverter(vFrom, vTo).  kind is "null" (null returned), "function" (a
\* chainedConverter returned, with its converters and _versionChain) or
\* "throw" (an exception escapes: Array(NaN) raises a RangeError when an
\* index is undefined).
getConverter(f, t) ==
    IF f = t \/ ~qnConverterMapTruthy(f) \/ ~qnConverterMapTruthy(t)
    THEN [kind |-> "null", converters |-> <<>>, versionChain |-> <<>>, error |-> ""]
    ELSE IF ~Has(qnConverterMapIndex(f)) \/ ~Has(qnConverterMapIndex(t))
    THEN [kind |-> "throw", converters |-> <<>>, versionChain |-> <<>>,
          error |-> "RangeError: Invalid array length"]
    ELSE chainedConverter(Val(qnConverterMapIndex(f)), Val(qnConverterMapIndex(t)), t)

---------------------------------------------------------------------------
(* Shared shapes of the converters *)

\* A choice-type member such as answerString, valueCoding or initialInteger is
\* a pair [kind, value]; an object's members of one prefix are kept as the
\* sequence of such pairs in key order.  Strings that the code tests with
\* startsWith() are sequences of string pieces.  The converters work in place
\* on an item and a result object ret; the pair [item, ret] is threaded
\* through the statements.

\* Set (assign) the member of the given kind: an existing key keeps its place.
setKind(members, kind, value) ==
    IF \E i \in DOMAIN members : members[i].kind = kind
    THEN [i \in DOMAIN members |->
            IF members[i].kind = kind THEN [kind |-> kind, value |-> value] ELSE members[i]]
    ELSE Append(members, [kind |-> kind, value |-> value])

\* Delete the member of the given kind.
delKind(members, kind) == SelectSeq(members, LAMBDA m : m.kind # kind)

\* The value of the member of the given kind, "undefined" when there is none.
getKind(members, kind) ==
    IF \E i \in DOMAIN members : members[i].kind = kind
    THEN (CHOOSE m \in {members[i] : i \in DOMAIN members} : m.kind = kind).value
    ELSE "undefined"

\* JavaScript truthiness of an optional string member.
Truthy(o) == Has(o) /\ Val(o) \notin {"", "undefined"}

\* JavaScript truthiness of an optional string member kept in pieces.
TruthyPieces(o) == Has(o) /\ Val(o) # <<>>

\* let ret = {status: 1, data: ...}: the status and message of a new result.
newRet == [status |-> 1, message |-> None]

\* The sub-results of a loop merged into ret in order:
\* for(...) { updateRetStatus(ret, subRet.status, subRet.message) }
RECURSIVE mergeSubRets(_, _)
mergeSubRets(ret, subRets) ==
    IF subRets = <<>> THEN ret
    ELSE mergeSubRets(updateRetStatus(ret, Head(subRets).status, Head(subRets).message),
                      Tail(subRets))

\* Messages recorded one after the other, each by
\* updateRetStatus(ret, status, message).
RECURSIVE recordAll(_, _, _)
recordAll(ret, status, msgs) ==
    IF msgs = <<>> THEN ret
    ELSE recordAll(updateRetStatus1(ret, status, Head(msgs)), status, Tail(msgs))

\* updateRetStatus(ret, part.status, part.message) after a helper that worked
\* on the item in place and returned its own result object.
applyPart(st, part) ==
    [item |-> part.item, ret |-> updateRetStatus(st.ret, part.ret.status, part.ret.message)]

\* item.item || []
subItems(item) == IF Has(item.item) THEN Val(item.item) ELSE <<>>

\* A variant of mergeItems that loses the sub-items.
mergeItemsNoChildren(ele, ret, subRets) ==
    [status |-> mergeSubRets(ret, subRets).status,
     message |-> mergeSubRets(ret, subRets).message,
     data |-> [ele EXCEPT !.item = None]]

\* The end of an item (or root) conversion: the sub-item results merged into
\* ret, the element holding the converted sub-items.
mergeItems(ele, ret, subRets) ==
    [status |-> mergeSubRets(ret, subRets).status,
     message |-> mergeSubRets(ret, subRets).message,
     data |-> IF Has(ele.item)
              THEN [ele EXCEPT !.item = Some([i \in DOMAIN subRets |-> subRets[i].data])]
              ELSE ele]

\* A converter returns [status, message, data, fresh]: fresh tells whether data
\* is a new object (the deep copy) or the very object that was passed in.
asFresh(ret) ==
    [status |-> ret.status, message |-> ret.message, data |-> ret.data, fresh |-> TRUE]

\* The context of a message about the resource itself.
resourceCtx(qn) == [linkId |-> None, id |-> qn.id]

\* The early return of a converter for a resource of another type.
notQuestionnaire(qn) ==
    [status |-> 0, message |-> Some(<<createMsg(resourceCtx(qn), 0, "Not a Questionnaire resource")>>),
     data |-> qn, fresh |-> FALSE]

\* The entries an enableWhen.map(...).filter(ew => ew) keeps.
keptEws(conv) ==
    [i \in DOMAIN SelectSeq(conv, LAMBDA c : c.keep) |-> SelectSeq(conv, LAMBDA c : c.keep)[i].ew]

\* The entries it drops.
lostEws(conv) ==
    [i \in DOMAIN SelectSeq(conv, LAMBDA c : ~c.keep) |-> SelectSeq(conv, LAMBDA c : ~c.keep)[i].ew]

\* item.enableWhen = list; if(item.enableWhen.length === 0) delete item.enableWhen
setEnableWhen(item, list) ==
    [item EXCEPT !.enableWhen = IF list = <<>> THEN None ELSE Some(list)]

---------------------------------------------------------------------------
(* STU3 to R4: qnvconv_stu3_r4.js *)

\* A variant of ewR3ToR4 that leaves hasAnswer in place.
ewR3ToR4KeepHasAnswer(ew) ==
    IF Has(ew.hasAnswer)
    THEN [keep |-> TRUE,
          ew |-> [ew EXCEPT !.operator = Some("exists"),
                            !.answer = setKind(ew.answer, "Boolean", Val(ew.hasAnswer))]]
    ELSE [keep |-> ~(ew.answer # <<>> /\ ew.answer[1].kind \in {"Uri", "Attachment"}),
          ew |-> [ew EXCEPT !.operator = Some("=")]]

\* The callback of enableWhen.map() in enableWhenR3ToR4: the converted entry,
\* dropped (ew = null) for answerUri and answerAttachment.
ewR3ToR4(ew) ==
    IF Has(ew.hasAnswer)
    THEN [keep |-> TRUE,
          ew |-> [ew EXCEPT !.operator = Some("exists"),
                            !.answer = setKind(ew.answer, "Boolean", Val(ew.hasAnswer)),
                            !.hasAnswer = None]]
    ELSE [keep |-> ~(ew.answer # <<>> /\ ew.answer[1].kind \in {"Uri", "Attachment"}),
          ew |-> [ew EXCEPT !.operator = Some("=")]]

\* A variant of ewDoneR3ToR4 that records one message for all dropped entries.
ewDoneR3ToR4OneMessage(item, conv) ==
    [item |-> setEnableWhen(item, keptEws(conv)),
     ret |-> recordAll(newRet, -1,
                IF lostEws(conv) = <<>> THEN <<>>
                ELSE <<createMsg(item, -1, "answerUri or answerAttachment dropped from enableWhen ")>>)]

\* enableWhenR3ToR4 after the map: one loss message per dropped entry.
ewDoneR3ToR4(item, conv) ==
    [item |-> setEnableWhen(item, keptEws(conv)),
     ret |-> recordAll(newRet, -1,
                [i \in DOMAIN lostEws(conv) |->
                    createMsg(item, -1, "answerUri or answerAttachment dropped from enableWhen ")])]

enableWhenR3ToR4(item) ==
    IF ~Has(item.enableWhen) \/ Val(item.enableWhen) = <<>> THEN [item |-> item, ret |-> newRet]
    ELSE ewDoneR3ToR4(item, [i \in DOMAIN Val(item.enableWhen) |-> ewR3ToR4(Val(item.enableWhen)[i])])

\* if(item.options) { ... delete item.options }
optionsR3ToR4(st) ==
    IF ~Has(st.item.options) THEN st
    ELSE IF Has(Val(st.item.options).reference)
            /\ StartsWith(Val(Val(st.item.options).reference), <<"http">>)
    THEN [item |-> [st.item EXCEPT !.answerValueSet = Val(st.item.options).reference,
                                   !.options = None],
          ret |-> updateRetStatus1(st.ret, 0,
                    createMsg(st.item, 0, "Using item.options.reference as answerOption canonical."))]
    ELSE [item |-> [st.item EXCEPT !.options = None],
          ret |-> updateRetStatus1(st.ret, -1, createMsg(st.item, -1, "Unable to convert item.options."))]

\* if(item.option) { item.answerOption = item.option; delete item.option }
optionR3ToR4(st) ==
    IF Has(st.item.option)
    THEN [st EXCEPT !.item = [st.item EXCEPT !.answerOption = st.item.option, !.option = None]]
    ELSE st

answerOptionsR3ToR4(item) == optionR3ToR4(optionsR3ToR4([item |-> item, ret |-> newRet]))

\* The initial[x] rewrite of qnItemR3ToR4: the first key that starts with
\* 'initial' (a legacy initial<Kind> key, else the key 'initial' itself, which
\* is then wrapped and deleted again).
initialR3ToR4(item) ==
    IF item.initialX # <<>>
    THEN [item EXCEPT !.initial = Some(<<[value |-> <<item.initialX[1]>>]>>),
                      !.initialX = Tail(item.initialX)]
    ELSE IF Has(item.initial) THEN [item EXCEPT !.initial = None]
    ELSE item

\* let optRet = answerOptionsR3ToR4(item); updateRetStatus(ret, ...)
optStepR3ToR4(st) == applyPart(st, answerOptionsR3ToR4(st.item))

\* The initial[x] statement of qnItemR3ToR4.
initialStepR3ToR4(st) == [st EXCEPT !.item = initialR3ToR4(st.item)]

RECURSIVE qnItemR3ToR4(_)
\* The loop over the sub-items, and the return.
itemTailR3ToR4(st) ==
    mergeItems(st.item, st.ret, [i \in DOMAIN subItems(st.item) |-> qnItemR3ToR4(subItems(st.item)[i])])

qnItemR3ToR4(item) ==
    itemTailR3ToR4(initialStepR3ToR4(optStepR3ToR4(
        applyPart([item |-> item, ret |-> newRet], enableWhenR3ToR4(item)))))

\* r.meta with profile replaced by [profile] and a tag {code} pushed, as the
\* STU3/R4 converters do on their deep copy.
stampStu3R4(qn, profile, code) ==
    [qn EXCEPT !.meta = Some(
        [profile |-> Some(<<profile>>),
         tag |-> Some(Append(IF Has(qn.meta) /\ Has(Val(qn.meta).tag) THEN Val(Val(qn.meta).tag) ELSE <<>>,
                             [code |-> code, display |-> None]))])]

\* qnR3ToR4 on the stamped deep copy: the loop over the items.
rootR3ToR4(r4qn) ==
    asFresh(mergeItems(r4qn, newRet, [i \in DOMAIN subItems(r4qn) |-> qnItemR3ToR4(subItems(r4qn)[i])]))

qnR3ToR4(r3qn, opts) ==
    IF r3qn.resourceType # "Questionnaire" THEN notQuestionnaire(r3qn)
    ELSE rootR3ToR4(stampStu3R4(r3qn, "http://hl7.org/fhir/4.0/StructureDefinition/Questionnaire",
                                "lhc-qn-converter-STU3toR4"))

---------------------------------------------------------------------------
(* R4 to STU3: qnvconv_stu3_r4.js *)

\* A variant of ewR4ToR3 that leaves answerBoolean in place.
ewR4ToR3KeepAnswerBoolean(ew) ==
    IF ew.operator = Some("exists")
    THEN [keep |-> TRUE,
          ew |-> [ew EXCEPT !.hasAnswer = Some(getKind(ew.answer, "Boolean")),
                            !.operator = None]]
    ELSE IF ew.operator # Some("=")
    THEN [keep |-> FALSE, ew |-> ew]
    ELSE [keep |-> TRUE, ew |-> [ew EXCEPT !.operator = None]]

\* A variant of ewR4ToR3 that keeps the conditions of every other operator.
ewR4ToR3KeepAll(ew) ==
    IF ew.operator = Some("exists")
    THEN [keep |-> TRUE,
          ew |-> [ew EXCEPT !.hasAnswer = Some(getKind(ew.answer, "Boolean")),
                            !.answer = delKind(ew.answer, "Boolean"),
                            !.operator = None]]
    ELSE [keep |-> TRUE, ew |-> [ew EXCEPT !.operator = None]]

\* The callback of enableWhen.map() in enableWhenR4ToR3.  A missing
\* answerBoolean leaves hasAnswer present with the value undefined.
ewR4ToR3(ew) ==
    IF ew.operator = Some("exists")
    THEN [keep |-> TRUE,
          ew |-> [ew EXCEPT !.hasAnswer = Some(getKind(ew.answer, "Boolean")),
                            !.answer = delKind(ew.answer, "Boolean"),
                            !.operator = None]]
    ELSE IF ew.operator # Some("=")
    THEN [keep |-> FALSE, ew |-> ew]
    ELSE [keep |-> TRUE, ew |-> [ew EXCEPT !.operator = None]]

\* 'Unable to convert enableWhen with operator ' + ew.operator
ewLossMsgR4ToR3(item, ew) ==
    createMsg(item, -1, "Unable to convert enableWhen with operator "
                        \o (IF Has(ew.operator) THEN Val(ew.operator) ELSE "undefined"))

\* enableWhenR4ToR3 after the map: one loss message per dropped entry.
ewDoneR4ToR3(item, conv) ==
    [item |-> setEnableWhen(item, keptEws(conv)),
     ret |-> recordAll(newRet, -1,
                [i \in DOMAIN lostEws(conv) |-> ewLossMsgR4ToR3(item, lostEws(conv)[i])])]

enableWhenR4ToR3(item) ==
    IF ~Has(item.enableWhen) \/ Val(item.enableWhen) = <<>> THEN [item |-> item, ret |-> newRet]
    ELSE ewDoneR4ToR3(item, [i \in DOMAIN Val(item.enableWhen) |-> ewR4ToR3(Val(item.enableWhen)[i])])

\* if(item.answerValueSet) { ... }
valueSetR4ToR3(st) ==
    IF TruthyPieces(st.item.answerValueSet)
    THEN [item |-> [st.item EXCEPT !.options = Some([reference |-> st.item.answerValueSet]),
                                   !.answerValueSet = None],
          ret |-> updateRetStatus1(st.ret, 0,
                    createMsg(st.item, 0, "Using item.answerValueSet as item.options.reference."))]
    ELSE st

\* The messages that the callback of answerOption.map() records for one entry.
optMsgsR4ToR3(item, opt) ==
    (IF Has(opt.initialSelected)
     THEN <<createMsg(item, -1, "deleted answerOption.initialSelected")>> ELSE <<>>)
    \o (IF opt.kind = "Reference"
        THEN <<createMsg(item, -1, "deleted answerOption.valueReference")>> ELSE <<>>)

\* A variant of keptOptsR4ToR3 that leaves initialSelected in place.
keptOptsR4ToR3KeepSelected(opts) == SelectSeq(opts, LAMBDA o : o.kind # "Reference")

\* The entries that answerOption.map(...).filter(opt => opt) keeps.
keptOptsR4ToR3(opts) ==
    [i \in DOMAIN SelectSeq(opts, LAMBDA o : o.kind # "Reference") |->
        [SelectSeq(opts, LAMBDA o : o.kind # "Reference")[i] EXCEPT !.initialSelected = None]]

\* if(item.option.length < item.answerOption.length) updateRetStatus(...)
countOptsR4ToR3(ret, item, nKept, nAll) ==
    IF nKept < nAll
    THEN updateRetStatus1(ret, -1,
            createMsg(item, -1, "answerOption entries with valueReference have been dropped."))
    ELSE ret

\* if(item.answerOption) { ... }
answerOptionR4ToR3(st) ==
    IF Has(st.item.answerOption)
    THEN [item |-> [st.item EXCEPT
                        !.option = IF keptOptsR4ToR3(Val(st.item.answerOption)) = <<>> THEN None
                                   ELSE Some(keptOptsR4ToR3(Val(st.item.answerOption))),
                        !.answerOption = None],
          ret |-> countOptsR4ToR3(
                    recordAll(st.ret, -1,
                        Concat([i \in DOMAIN Val(st.item.answerOption) |->
                                    optMsgsR4ToR3(st.item, Val(st.item.answerOption)[i])])),
                    st.item, Len(keptOptsR4ToR3(Val(st.item.answerOption))),
                    Len(Val(st.item.answerOption)))]
    ELSE st

answerOptionsR4ToR3(item) == answerOptionR4ToR3(valueSetR4ToR3([item |-> item, ret |-> newRet]))

\* if(item.enableBehavior) { ... }
enableBehaviorR4ToR3(st) ==
    IF Truthy(st.item.enableBehavior)
    THEN [item |-> [st.item EXCEPT !.enableBehavior = None],
          ret |-> updateRetStatus1(st.ret, -1,
                    createMsg(st.item, -1, "enableBehavior is not supported in STU3, deleted"))]
    ELSE st

\* A variant of initialMsgsR4ToR3 that is silent about the entries after the first.
initialMsgsR4ToR3FirstOnly(item) ==
    IF Val(item.initial)[1].value = <<>>
    THEN <<createMsg(item, -1, "Failed to convert item.initial[0")>> ELSE <<>>

\* The messages of the initial statement of qnItemR4ToR3.
initialMsgsR4ToR3(item) ==
    (IF Val(item.initial)[1].value = <<>>
     THEN <<createMsg(item, -1, "Failed to convert item.initial[0")>> ELSE <<>>)
    \o (IF Len(Val(item.initial)) > 1
        THEN <<createMsg(item, -1, "All but the first item.initial have been dropped.")>> ELSE <<>>)

\* if(item.initial && item.initial.length) { ... } delete item.initial
initialR4ToR3(st) ==
    IF Has(st.item.initial) /\ Val(st.item.initial) # <<>>
    THEN [item |-> [st.item EXCEPT
                        !.initialX = IF Val(st.item.initial)[1].value # <<>>
                                     THEN setKind(@, Val(st.item.initial)[1].value[1].kind,
                                                  Val(st.item.initial)[1].value[1].value)
                                     ELSE @,
                        !.initial = None],
          ret |-> recordAll(st.ret, -1, initialMsgsR4ToR3(st.item))]
    ELSE [st EXCEPT !.item = [st.item EXCEPT !.initial = None]]

\* let ewRet = enableWhenR4ToR3(item); updateRetStatus(ret, ...)
ewStepR4ToR3(st) == applyPart(st, enableWhenR4ToR3(st.item))

\* let optRet = answerOptionsR4ToR3(item); updateRetStatus(ret, ...)
optStepR4ToR3(st) == applyPart(st, answerOptionsR4ToR3(st.item))

RECURSIVE qnItemR4ToR3(_)
\* The loop over the sub-items, and the return.
itemTailR4ToR3(st) ==
    mergeItems(st.item, st.ret, [i \in DOMAIN subItems(st.item) |-> qnItemR4ToR3(subItems(st.item)[i])])

qnItemR4ToR3(item) ==
    itemTailR4ToR3(initialR4ToR3(optStepR4ToR3(ewStepR4ToR3(
        enableBehaviorR4ToR3([item |-> item, ret |-> newRet])))))

\* if(r3qn.derivedFrom) { delete r3qn.derivedFrom; updateRetStatus(...) }
derivedFromR4ToR3(ret) ==
    IF Has(ret.data.derivedFrom)
    THEN [updateRetStatus1(ret, -1,
            createMsg(resourceCtx(ret.data), -1, "derivedFrom is not supported in STU3, deleted"))
          EXCEPT !.data = [ret.data EXCEPT !.derivedFrom = None]]
    ELSE ret

\* qnR4ToR3 on the stamped deep copy.
rootR4ToR3(r3qn) ==
    asFresh(derivedFromR4ToR3(
        mergeItems(r3qn, newRet, [i \in DOMAIN subItems(r3qn) |-> qnItemR4ToR3(subItems(r3qn)[i])])))

qnR4ToR3(r4qn, opts) ==
    IF r4qn.resourceType # "Questionnaire" THEN notQuestionnaire(r4qn)
    ELSE rootR4ToR3(stampStu3R4(r4qn, "http://hl7.org/fhir/stu3/StructureDefinition/Questionnaire",
                                "lhc-qn-converter-R4toSTU3"))

---------------------------------------------------------------------------
(* Inter-version extensions: qnvconv_common.js *)

\* An extension is [url, value]: url a string in pieces, value its value[x]
\* members in key order.

toIntVerExtUrl(fhirVer, ivePath) ==
    <<"http://hl7.org/fhir/", fhirVer, "/StructureDefinition/extension-", ivePath>>

\* ele.extension || []
extensionsOf(ele) == IF Has(ele.extension) THEN Val(ele.extension) ELSE <<>>

\* findIntVerExts(ele, fhirVer, extPathPrefix, ...fields), fields a set.
findIntVerExts(ele, fhirVer, extPathPrefix, fields) ==
    IF extensionsOf(ele) = <<>> \/ fields = {} THEN <<>>
    ELSE SelectSeq(extensionsOf(ele),
                   LAMBDA ext : ext.url \in {toIntVerExtUrl(fhirVer, extPathPrefix \o "." \o f) : f \in fields})

\* intVerExtPrefix of removeInterVerExts.
intVerExtPrefix(fhirVer) == <<"http://hl7.org/fhir/", fhirVer, "/StructureDefinition/extension-">>

\* A variant of removeInterVerExts that removes the extensions of the
\* recovered fields only.
removeInterVerExtsRecovered(ele, fhirVer) ==
    IF Has(ele.extension)
    THEN [ele EXCEPT !.extension =
            Some(SelectSeq(Val(ele.extension), LAMBDA ext :
                    ext.url \notin {toIntVerExtUrl(fhirVer, f) :
                        f \in {"Questionnaire.item.answerConstraint", "Questionnaire.item.disabledDisplay",
                               "Questionnaire.versionAlgorithm", "Questionnaire.copyrightLabel"}}))]
    ELSE ele

\* removeInterVerExts(ele, fhirVer): the element afterwards.
removeInterVerExts(ele, fhirVer) ==
    IF Has(ele.extension)
    THEN [ele EXCEPT !.extension =
            Some(SelectSeq(Val(ele.extension), LAMBDA ext : ~StartsWith(ext.url, intVerExtPrefix(fhirVer))))]
    ELSE ele

\* addExtension(ele, ive): the element afterwards.
addExtension(ele, ive) ==
    [ele EXCEPT !.extension = Some(Append(extensionsOf(ele), ive))]

\* options?.interVerExt (the option fields are booleans)
interVerExtOn(opts) == Has(opts) /\ Val(opts).interVerExt = Some(TRUE)

---------------------------------------------------------------------------
(* R4 to R5: qnvconv_r4_r5.js *)

\* A variant of typeR4ToR5 that turns open-choice into coding without the
\* answerConstraint.
typeR4ToR5Plain(item) ==
    IF item.type \in {"choice", "open-choice"} THEN [item EXCEPT !.type = "coding"] ELSE item

\* The type statement of qnItemR4ToR5.
typeR4ToR5(item) ==
    IF item.type = "choice" THEN [item EXCEPT !.type = "coding"]
    ELSE IF item.type = "open-choice"
    THEN [item EXCEPT !.type = "coding", !.answerConstraint = Some("optionsOrString")]
    ELSE item

\* item[field] = ive.valueCode
setItemField(item, field, value) ==
    IF field = "answerConstraint" THEN [item EXCEPT !.answerConstraint = Some(value)]
    ELSE [item EXCEPT !.disabledDisplay = Some(value)]

\* One round of the recovery loop of qnItemR4ToR5, for one field.
recoverItemField(item, field) ==
    IF findIntVerExts(item, "5.0", "Questionnaire.item", {field}) = <<>> THEN item
    ELSE setItemField(item, field,
            getKind(findIntVerExts(item, "5.0", "Questionnaire.item", {field})[1].value, "Code"))

RECURSIVE qnItemR4ToR5(_)
\* The loop over the sub-items, and the return.
itemTailR4ToR5(item) ==
    [status |-> 1, message |-> None,
     data |-> IF Has(item.item)
              THEN [item EXCEPT !.item = Some([i \in DOMAIN Val(item.item) |-> qnItemR4ToR5(Val(item.item)[i]).data])]
              ELSE item]

qnItemR4ToR5(item) ==
    itemTailR4ToR5(removeInterVerExts(
        recoverItemField(recoverItemField(typeR4ToR5(item), "answerConstraint"), "disabledDisplay"),
        "5.0"))

\* r5qn[fieldName] = ive[valueKey], valueKey being the member pair found.
setRootField(ret, extName, member) ==
    IF extName = "copyrightLabel" THEN [ret EXCEPT !.data.copyrightLabel = Some(member.value)]
    ELSE IF member.kind = "Coding" THEN [ret EXCEPT !.data.versionAlgorithmCoding = Some(member.value)]
    ELSE [ret EXCEPT !.data.versionAlgorithmString = Some(member.value)]

\* The body of the recovery loop of qnR4ToR5 once ive is found; keys are its
\* valueCoding and valueString members in key order.  The warning is passed
\* to updateRetStatus as a bare string.
recoverRootFrom(ret, extName, keys) ==
    IF keys = <<>>
    THEN updateRetStatus1(ret, 0, strMsg(extName \o "Missing valueX for inter-version extension " \o extName))
    ELSE setRootField(ret, extName, keys[1])

\* One round of the recovery loop of qnR4ToR5, for one extension name.
recoverRootField(ret, extName) ==
    IF findIntVerExts(ret.data, "5.0", "Questionnaire", {extName}) = <<>> THEN ret
    ELSE recoverRootFrom(ret, extName,
            SelectSeq(findIntVerExts(ret.data, "5.0", "Questionnaire", {extName})[1].value,
                      LAMBDA m : m.kind \in {"Coding", "String"}))

\* removeInterVerExts(r5qn, '5.0'); return ret
rootTailR4ToR5(ret) == asFresh([ret EXCEPT !.data = removeInterVerExts(ret.data, "5.0")])

\* qnR4ToR5 on the deep copy.
rootR4ToR5(r5qn) ==
    rootTailR4ToR5(recoverRootField(recoverRootField(
        mergeItems(r5qn, newRet, [i \in DOMAIN subItems(r5qn) |-> qnItemR4ToR5(subItems(r5qn)[i])]),
        "versionAlgorithm"), "copyrightLabel"))

qnR4ToR5(r4qn, opts) ==
    IF r4qn.resourceType # "Questionnaire" THEN notQuestionnaire(r4qn) ELSE rootR4ToR5(r4qn)

---------------------------------------------------------------------------
(* R5 to R4: qnvconv_r4_r5.js *)

\* item.answerOption?.length || item.answerValueSet
hasAnswerList(item) ==
    (Has(item.answerOption) /\ Val(item.answerOption) # <<>>) \/ TruthyPieces(item.answerValueSet)

\* item.answerConstraint && item.answerConstraint !== 'optionsOnly'
openConstraint(item) ==
    Truthy(item.answerConstraint) /\ item.answerConstraint # Some("optionsOnly")

\* A variant of listTypeR5ToR4 that leaves the answerConstraint of a coding
\* item to the loop over the R5-only fields.
listTypeR5ToR4KeepConstraint(st) ==
    IF st.item.type = "coding"
    THEN IF st.item.answerConstraint = Some("optionsOrType")
         THEN [item |-> [st.item EXCEPT !.type = "open-choice"],
               ret |-> updateRetStatus1(st.ret, 0,
                        createMsg(st.item, 0, "optionsOrType with type coding is converted as open-choice"))]
         ELSE [st EXCEPT !.item = [st.item EXCEPT
                    !.type = IF st.item.answerConstraint = Some("optionsOrString")
                             THEN "open-choice" ELSE "choice"]]
    ELSE IF openConstraint(st.item)
    THEN [st EXCEPT !.ret = updateRetStatus1(st.ret, -1, createMsg(st.item, -1,
                Val(st.item.answerConstraint) \o ": non-coding, non-optionsOnly answerOption treated as options-only."))]
    ELSE [st EXCEPT !.item = [st.item EXCEPT !.answerConstraint = None]]

\* A variant of listTypeR5ToR4 that converts optionsOrType without a warning.
listTypeR5ToR4NoWarning(st) ==
    IF st.item.type = "coding"
    THEN [st EXCEPT !.item = [st.item EXCEPT
                    !.type = IF st.item.answerConstraint \in {Some("optionsOrString"), Some("optionsOrType")}
                             THEN "open-choice" ELSE "choice",
                    !.answerConstraint = None]]
    ELSE IF openConstraint(st.item)
    THEN [st EXCEPT !.ret = updateRetStatus1(st.ret, -1, createMsg(st.item, -1,
                Val(st.item.answerConstraint) \o ": non-coding, non-optionsOnly answerOption treated as options-only."))]
    ELSE [st EXCEPT !.item = [st.item EXCEPT !.answerConstraint = None]]

\* The branch of qnItemR5ToR4 for an item with answerOption or answerValueSet.
listTypeR5ToR4(st) ==
    IF st.item.type = "coding"
    THEN IF st.item.answerConstraint = Some("optionsOrType")
         THEN [item |-> [st.item EXCEPT !.type = "open-choice"],
               ret |-> updateRetStatus1(st.ret, 0,
                        createMsg(st.item, 0, "optionsOrType with type coding is converted as open-choice"))]
         ELSE [st EXCEPT !.item = [st.item EXCEPT
                    !.type = IF st.item.answerConstraint = Some("optionsOrString")
                             THEN "open-choice" ELSE "choice",
                    !.answerConstraint = None]]
    ELSE IF openConstraint(st.item)
    THEN [st EXCEPT !.ret = updateRetStatus1(st.ret, -1, createMsg(st.item, -1,
                Val(st.item.answerConstraint) \o ": non-coding, non-optionsOnly answerOption treated as options-only."))]
    ELSE [st EXCEPT !.item = [st.item EXCEPT !.answerConstraint = None]]

\* The branch for an item of type coding without answerOption/answerValueSet.
codingTypeR5ToR4(st, type) ==
    [item |-> [st.item EXCEPT !.type = type],
     ret |-> updateRetStatus1(st.ret, 0, createMsg(st.item, 0, "Item of type coding converted to " \o type))]

\* The if / else-if ladder at the top of qnItemR5ToR4.
typeR5ToR4(st) ==
    IF hasAnswerList(st.item) THEN listTypeR5ToR4(st)
    ELSE IF st.item.type = "coding"
    THEN codingTypeR5ToR4(st, IF openConstraint(st.item) THEN "open-choice" ELSE "choice")
    ELSE IF Truthy(st.item.answerConstraint)
    THEN [st EXCEPT !.ret = updateRetStatus1(st.ret, -1, createMsg(st.item, -1,
                "Unable to handle answerConstraint without answerOption/answerValueSet for type "
                \o st.item.type))]
    ELSE st

\* item[field]
itemField(item, field) ==
    IF field = "answerConstraint" THEN item.answerConstraint ELSE item.disabledDisplay

\* delete item[field]
delItemField(item, field) ==
    IF field = "answerConstraint" THEN [item EXCEPT !.answerConstraint = None]
    ELSE [item EXCEPT !.disabledDisplay = None]

\* The inter-version extension that keeps item[field].
itemIve(item, field) ==
    [url |-> toIntVerExtUrl("5.0", "Questionnaire.item." \o field),
     value |-> <<[kind |-> "Code", value |-> Val(itemField(item, field))]>>]

\* One round of the field loop of qnItemR5ToR4.  The message is the string
\* that createMsg(item, -1, 'Dropped ') + field yields.
dropItemField(st, field, opts) ==
    IF Truthy(itemField(st.item, field))
    THEN [item |-> delItemField(IF interVerExtOn(opts)
                                THEN addExtension(st.item, itemIve(st.item, field))
                                ELSE st.item, field),
          ret |-> updateRetStatus1(st.ret, -1, strMsg("[object Object]" \o field))]
    ELSE st

RECURSIVE qnItemR5ToR4(_, _)
\* The loop over the sub-items, and the return.
itemTailR5ToR4(st, opts) ==
    mergeItems(st.item, st.ret,
               [i \in DOMAIN subItems(st.item) |-> qnItemR5ToR4(subItems(st.item)[i], opts)])

qnItemR5ToR4(item, opts) ==
    itemTailR5ToR4(
        dropItemField(dropItemField(typeR5ToR4([item |-> item, ret |-> newRet]),
                                    "answerConstraint", opts), "disabledDisplay", opts),
        opts)

\* r4qn[field]
rootField(qn, field) ==
    CASE field = "versionAlgorithmCoding" -> qn.versionAlgorithmCoding
      [] field = "versionAlgorithmString" -> qn.versionAlgorithmString
      [] OTHER -> qn.copyrightLabel

\* delete r4qn[field]
delRootField(qn, field) ==
    CASE field = "versionAlgorithmCoding" -> [qn EXCEPT !.versionAlgorithmCoding = None]
      [] field = "versionAlgorithmString" -> [qn EXCEPT !.versionAlgorithmString = None]
      [] OTHER -> [qn EXCEPT !.copyrightLabel = None]

\* The inter-version extension that keeps r4qn[field]; the extension name and
\* the value type are the groups of /(.+?)(String|Coding)?$/ on the field
\* name, the type defaulting to String.
rootIve(qn, field) ==
    [url |-> toIntVerExtUrl("5.0", "Questionnaire." \o
                (IF field = "copyrightLabel" THEN "copyrightLabel" ELSE "versionAlgorithm")),
     value |-> <<[kind |-> IF field = "versionAlgorithmCoding" THEN "Coding" ELSE "String",
                  value |-> Val(rootField(qn, field))]>>]

\* One round of the field loop of qnR5ToR4.
dropRootField(ret, field, opts) ==
    IF Has(rootField(ret.data, field))
    THEN [updateRetStatus1(ret, -1, createMsg(resourceCtx(ret.data), -1, "Dropped " \o field))
          EXCEPT !.data = delRootField(IF interVerExtOn(opts)
                                       THEN addExtension(ret.data, rootIve(ret.data, field))
                                       ELSE ret.data, field)]
    ELSE ret

\* qnR5ToR4 on the deep copy.
rootR5ToR4(r4qn, opts) ==
    asFresh(dropRootField(dropRootField(dropRootField(
        mergeItems(r4qn, newRet, [i \in DOMAIN subItems(r4qn) |-> qnItemR5ToR4(subItems(r4qn)[i], opts)]),
        "versionAlgorithmCoding", opts), "versionAlgorithmString", opts), "copyrightLabel", opts))

qnR5ToR4(r5qn, opts) ==
    IF r5qn.resourceType # "Questionnaire" THEN notQuestionnaire(r5qn) ELSE rootR5ToR4(r5qn, opts)

---------------------------------------------------------------------------
(* The chain executor and the metadata stamp: qnvconv.js *)

\* qnNoOpConv(qn): the input itself, status 1, no message.
qnNoOpConv(qn, opts) ==
    [status |-> 1, message |-> None, data |-> qn, fresh |-> FALSE]

\* converter(stepResult.data, options) for a converter of the table.
callConverter(name, qn, opts) ==
    CASE name = "qnR3ToR4" -> qnR3ToR4(qn, opts)
      [] name = "qnR4ToR3" -> qnR4ToR3(qn, opts)
      [] name = "qnR4ToR5" -> qnR4ToR5(qn, opts)
      [] name = "qnR5ToR4" -> qnR5ToR4(qn, opts)
      [] OTHER -> qnNoOpConv(qn, opts)

\* options?.tag_conv !== false
tagConvOn(opts) == ~(Has(opts) /\ Val(opts).tag_conv = Some(FALSE))

\* convTag of updateMeta.
convTag(f, t) ==
    [code |-> "lhc-qnvconv-" \o f \o "-to-" \o t,
     display |-> Some("Converted from " \o f \o " to " \o t
                      \o " by the LHC Questionnaire Version Converter")]

\* qn.meta || {}
metaOf(qn) == IF Has(qn.meta) THEN Val(qn.meta) ELSE [profile |-> None, tag |-> None]

\* qn.meta.tag || []
tagsOf(qn) == IF Has(metaOf(qn).tag) THEN Val(metaOf(qn).tag) ELSE <<>>

\* qn.meta.profile || []
profilesOf(qn) == IF Has(metaOf(qn).profile) THEN Val(metaOf(qn).profile) ELSE <<>>

\* A variant of updateMeta that adds the target profile to the existing ones.
updateMetaAddProfile(qn, f, t, opts) ==
    [qn EXCEPT !.meta = Some([metaOf(qn) EXCEPT
        !.profile = Some(Append(profilesOf(qn), Val(qnConverterMap(t)).profile)),
        !.tag = IF tagConvOn(opts) THEN Some(Append(tagsOf(qn), convTag(f, t))) ELSE @])]

\* updateMeta(qn, vFrom, vTo, options): the object afterwards.
updateMeta(qn, f, t, opts) ==
    [qn EXCEPT !.meta = Some([metaOf(qn) EXCEPT
        !.profile = Some(<<Val(qnConverterMap(t)).profile>>),
        !.tag = IF tagConvOn(opts) THEN Some(Append(tagsOf(qn), convTag(f, t))) ELSE @])]

---------------------------------------------------------------------------
(* The documents and options the caller may pass *)

\* Bounds of the inputs.
MaxTags == 2

MaxProfiles == 2

\* An item with only linkId, type and text.
mkItem(linkId, type) ==
    [id |-> None, linkId |-> Some(linkId), type |-> type, text |-> Some("text of " \o linkId),
     enableBehavior |-> None, enableWhen |-> None, option |-> None, options |-> None,
     answerOption |-> None, answerValueSet |-> None, initialX |-> <<>>, initial |-> None,
     answerConstraint |-> None, disabledDisplay |-> None, extension |-> None, item |-> None]

\* A resource without meta, root fields or items.
mkResource(resourceType, id) ==
    [resourceType |-> resourceType, id |-> id, url |-> Some("http://example.org/Questionnaire/q"),
     meta |-> None, derivedFrom |-> None, versionAlgorithmString |-> None,
     versionAlgorithmCoding |-> None, copyrightLabel |-> None, extension |-> None, item |-> None]

mkEw(question, operator, hasAnswer, answer) ==
    [question |-> question, operator |-> operator, hasAnswer |-> hasAnswer, answer |-> answer]

mkOpt(kind, value) == [kind |-> kind, value |-> value, initialSelected |-> None]

\* Item lists in the shapes of the supported versions.
Stu3Items ==
    << [mkItem("/X-001", "string") EXCEPT !.initialX = <<[kind |-> "String", value |-> "Mint"]>>],
       [mkItem("/X-002", "choice") EXCEPT
            !.enableWhen = Some(<<mkEw("/X-001", None, Some("true"), <<>>),
                                  mkEw("/X-001", None, None, <<[kind |-> "Uri", value |-> "urn:x"]>>),
                                  mkEw("/X-001", None, None, <<[kind |-> "String", value |-> "Mint"]>>),
                                  mkEw("/X-001", None, Some("false"), <<>>)>>),
            !.options = Some([reference |-> Some(<<"http", "://ocean-beach.com/ValueSet/beach">>)]),
            !.item = Some(<<[mkItem("/X-002a", "open-choice") EXCEPT
                                !.enableWhen = Some(<<mkEw("/X-001", None, None, <<[kind |-> "Attachment", value |-> "a"]>>),
                                                      mkEw("/X-002", None, None, <<[kind |-> "Uri", value |-> "urn:x"]>>)>>),
                                !.option = Some(<<mkOpt("Coding", "c"), mkOpt("Coding", "o")>>)]>>)],
       [mkItem("/X-003", "choice") EXCEPT
            !.options = Some([reference |-> Some(<<"urn", ":uuid:7f9c2a5e-beach">>)])],
       [mkItem("/X-004", "choice") EXCEPT
            !.options = Some([reference |-> Some(<<"ValueSet/beach">>)])] >>

\* An extension list with two extensions of another publisher around an
\* inter-version extension tagged 5.0 for a field that no converter recovers.
MixedExtensions(path) ==
    << [url |-> <<"http://example.org/fhir/StructureDefinition/hint">>,
        value |-> <<[kind |-> "String", value |-> "h"]>>],
       [url |-> toIntVerExtUrl("5.0", path \o ".code"),
        value |-> <<[kind |-> "Coding", value |-> "c"]>>],
       [url |-> <<"http://example.org/fhir/StructureDefinition/note">>,
        value |-> <<[kind |-> "String", value |-> "n"]>>] >>

R4Items ==
    << [mkItem("/X-001", "string") EXCEPT
            !.initial = Some(<<[value |-> <<[kind |-> "String", value |-> "Mint"]>>]>>)],
       [mkItem("/X-002", "open-choice") EXCEPT
            !.enableBehavior = Some("all"),
            !.enableWhen = Some(<<mkEw("/X-001", Some("exists"), None, <<[kind |-> "Boolean", value |-> "true"]>>),
                                  mkEw("/X-001", Some(">"), None, <<[kind |-> "Integer", value |-> "3"]>>),
                                  mkEw("/X-001", Some("="), None, <<[kind |-> "String", value |-> "Mint"]>>)>>),
            !.answerOption = Some(<<[mkOpt("Coding", "c") EXCEPT !.initialSelected = Some("true")],
                                    mkOpt("Reference", "Patient/1")>>),
            !.extension = Some(<<[url |-> toIntVerExtUrl("5.0", "Questionnaire.item.answerConstraint"),
                                  value |-> <<[kind |-> "Code", value |-> "optionsOrType"]>>]>>),
            !.item = Some(<<[mkItem("/X-002a", "choice") EXCEPT
                                !.enableWhen = Some(<<mkEw("/X-001", Some("!="), None, <<[kind |-> "String", value |-> "Mint"]>>),
                                                      mkEw("/X-002", Some(">"), None, <<[kind |-> "Integer", value |-> "3"]>>)>>),
                                !.answerValueSet = Some(<<"http", "://example.org/ValueSet/v">>),
                                !.extension = Some(MixedExtensions("Questionnaire.item"))]>>)],
       [mkItem("/X-003", "choice") EXCEPT
            !.answerOption = Some(<<mkOpt("Reference", "Patient/1"),
                                    [mkOpt("Reference", "Patient/2") EXCEPT !.initialSelected = Some("true")]>>),
            !.initial = Some(<<[value |-> <<[kind |-> "Reference", value |-> "Patient/2"]>>],
                               [value |-> <<[kind |-> "Reference", value |-> "Patient/1"]>>]>>)],
       [mkItem("/X-004", "string") EXCEPT
            !.initial = Some(<<[value |-> <<>>]>>),
            !.extension = Some(<<[url |-> toIntVerExtUrl("5.0", "Questionnaire.item.disabledDisplay"),
                                  value |-> <<[kind |-> "Code", value |-> "hidden"]>>],
                                 [url |-> toIntVerExtUrl("5.0", "Questionnaire.item.disabledDisplay"),
                                  value |-> <<[kind |-> "Code", value |-> "protected"]>>]>>)] >>

R5Items ==
    << [mkItem("/X-001", "coding") EXCEPT
            !.answerConstraint = Some("optionsOrType"),
            !.answerOption = Some(<<mkOpt("Coding", "c")>>)],
       [mkItem("/X-002", "string") EXCEPT
            !.disabledDisplay = Some("hidden"),
            !.item = Some(<<[mkItem("/X-002a", "coding") EXCEPT
                                !.disabledDisplay = Some("hidden"),
                                !.extension = Some(<<[url |-> toIntVerExtUrl("5.0", "Questionnaire.item.disabledDisplay"),
                                                      value |-> <<[kind |-> "Code", value |-> "protected"]>>]>>)]>>)] >>

PlainItems == << mkItem("/X-001", "string"), mkItem("/X-002", "integer") >>

\* Items and a root extension list that carry inter-version extensions tagged
\* 4.0, as a document that was handled by other tools may.
TaggedItems ==
    << [mkItem("/X-001", "string") EXCEPT
            !.extension = Some(<<[url |-> toIntVerExtUrl("4.0", "Questionnaire.item.text"),
                                  value |-> <<[kind |-> "String", value |-> "t"]>>]>>)] >>

TaggedExtensions ==
    << [url |-> toIntVerExtUrl("4.0", "Questionnaire.title"),
        value |-> <<[kind |-> "String", value |-> "Demo form"]>>] >>

\* The resources a caller may pass, before meta is added: questionnaires in
\* the shapes of the supported versions, and resources of another type.
Bodies ==
    { mkResource("Questionnaire", Some("q1")),
      [mkResource("Questionnaire", Some("q1")) EXCEPT !.item = Some(PlainItems)],
      [mkResource("Questionnaire", Some("q1")) EXCEPT !.item = Some(Stu3Items)],
      [mkResource("Questionnaire", Some("q1")) EXCEPT
            !.item = Some(R4Items), !.derivedFrom = Some("http://standard-qn-repo.org/qn-100"),
            !.extension = Some(MixedExtensions("Questionnaire"))],
      [mkResource("Questionnaire", None) EXCEPT
            !.item = Some(R5Items), !.versionAlgorithmString = Some("semver"),
            !.copyrightLabel = Some("(c) LHC")],
      [mkResource("Questionnaire", Some("q1")) EXCEPT
            !.item = Some(TaggedItems), !.extension = Some(TaggedExtensions)],
      mkResource("Patient", Some("p1")),
      [mkResource("Bundle", None) EXCEPT !.versionAlgorithmString = Some("semver")] }

\* The i-th tag and profile that a document carries before the conversion.
tagNo(i) == [code |-> "tag-" \o ToString(i), display |-> None]

profileNo(i) == "http://example.org/StructureDefinition/profile-" \o ToString(i)

\* meta values: absent, or with profile and tag each absent or a list.
Metas ==
    {None} \cup
    { Some([profile |-> p, tag |-> t]) :
        p \in {None} \cup {Some([i \in 1..n |-> profileNo(i)]) : n \in 0..MaxProfiles},
        t \in {None} \cup {Some([i \in 1..n |-> tagNo(i)]) : n \in 0..MaxTags} }

Documents == {[b EXCEPT !.meta = m] : b \in Bodies, m \in Metas}

\* The options argument: undefined, or an object whose fields are absent or
\* booleans.
OptionsSet ==
    {None} \cup
    { Some([tag_conv |-> tc, interVerExt |-> ive]) :
        tc \in {None, Some(FALSE)}, ive \in {None, Some(TRUE)} }

Init ==
    /\ qnJson0 \in Documents
    /\ heap = <<qnJson0>>
    /\ options \in OptionsSet
    /\ pc = "start"
    /\ api = ""
    /\ vFrom = ""
    /\ vTo = ""
    /\ converters = <<>>
    /\ versionChain = <<>>
    /\ stepNo = 0
    /\ stepResult = [status |-> 1, message |-> None, data |-> 1]
    /\ finalResult = [status |-> 1, message |-> None, data |-> None]
    /\ stepLog = <<>>
    /\ error = ""

---------------------------------------------------------------------------
(* The calls, as a state machine *)

\* stepResult.data, finalResult.data: the object a reference points to.
deref(ref) == heap[ref]

\* The outcome c of getConverter(f, t), received by the application.
GotConverter(f, t, c) ==
    /\ pc' = CASE c.kind = "null" -> "null"
                [] c.kind = "throw" -> "thrown"
                [] OTHER -> "ready"
    /\ converters' = c.converters
    /\ versionChain' = c.versionChain
    /\ error' = c.error
    /\ api' = "getConverter"
    /\ vFrom' = f
    /\ vTo' = t
    /\ UNCHANGED <<heap, qnJson0, options, stepNo, stepResult, finalResult, stepLog>>

\* getConverter(vFrom, vTo) called by the application.
CallGetConverter(f, t) ==
    /\ pc = "start"
    /\ GotConverter(f, t, getConverter(f, t))

\* convert() after its version check, c being the outcome of getConverter:
\* getConverter may throw, and calling a null convertFunc raises a TypeError.
ConvertWith(f, t, c) ==
    /\ pc' = IF c.kind # "function" THEN "thrown" ELSE "ready"
    /\ converters' = c.converters
    /\ versionChain' = c.versionChain
    /\ error' = CASE c.kind = "throw" -> c.error
                   [] c.kind = "null" -> "TypeError: convertFunc is not a function"
                   [] OTHER -> ""

\* convert(qnJson, vFrom, vTo, options) up to the call of convertFunc.
CallConvert(f, t) ==
    /\ pc = "start"
    /\ IF ~qnConverterMapTruthy(f) \/ ~qnConverterMapTruthy(t)
       THEN /\ pc' = "thrown"
            /\ error' = "Error: Unsupported FHIR version"
            /\ UNCHANGED <<converters, versionChain>>
       ELSE ConvertWith(f, t, getConverter(f, t))
    /\ api' = "convert"
    /\ vFrom' = f
    /\ vTo' = t
    /\ UNCHANGED <<heap, qnJson0, options, stepNo, stepResult, finalResult, stepLog>>

\* chainedConverter(qnJson, options): the two let statements.
Invoke ==
    /\ pc = "ready"
    /\ stepResult' = [status |-> 1, message |-> None, data |-> 1]
    /\ finalResult' = [status |-> 1, message |-> None, data |-> None]
    /\ stepNo' = 0
    /\ stepLog' = <<>>
    /\ pc' = "loop"
    /\ UNCHANGED <<heap, qnJson0, options, api, vFrom, vTo, converters, versionChain, error>>

\* The assignments of one iteration, r being what the converter returned.
StepDone(r) ==
    /\ heap' = IF r.fresh THEN Append(heap, r.data) ELSE heap
    /\ stepResult' = [status |-> r.status, message |-> r.message,
                      data |-> IF r.fresh THEN Len(heap) + 1 ELSE stepResult.data]
    /\ finalResult' = updateRetStatus(finalResult, r.status, r.message)
    /\ stepLog' = Append(stepLog, [status |-> r.status, message |-> r.message,
                                   conv |-> Val(converters[stepNo + 1]),
                                   input |-> stepResult.data,
                                   data |-> IF r.fresh THEN Len(heap) + 1 ELSE stepResult.data])
    /\ stepNo' = stepNo + 1
    /\ UNCHANGED <<pc, error>>

\* One iteration of the for loop of chainedConverter.  Calling a missing
\* table entry (undefined) would raise a TypeError.
Step ==
    /\ pc = "loop"
    /\ stepNo < Len(converters)
    /\ IF ~Has(converters[stepNo + 1])
       THEN /\ pc' = "thrown"
            /\ error' = "TypeError: converter is not a function"
            /\ UNCHANGED <<heap, stepNo, stepResult, finalResult, stepLog>>
       ELSE StepDone(callConverter(Val(converters[stepNo + 1]), deref(stepResult.data), options))
    /\ UNCHANGED <<qnJson0, options, api, vFrom, vTo, converters, versionChain>>

\* The end of chainedConverter: if(stepResult.data) { finalResult.data = ...;
\* updateMeta(finalResult.data, ...) } return finalResult.  A document is an
\* object, hence truthy; updateMeta writes into the object itself.
Return ==
    /\ pc = "loop"
    /\ stepNo = Len(converters)
    /\ finalResult' = [finalResult EXCEPT !.data = Some(stepResult.data)]
    /\ heap' = [heap EXCEPT ![stepResult.data] = updateMeta(@, vFrom, vTo, options)]
    /\ pc' = "done"
    /\ UNCHANGED <<qnJson0, options, api, vFrom, vTo, converters, versionChain, stepNo, stepResult, stepLog, error>>

Next ==
    \/ \E f \in Tokens, t \in Tokens : CallGetConverter(f, t)
    \/ \E f \in Tokens, t \in Tokens : CallConvert(f, t)
    \/ Invoke
    \/ Step
    \/ Return

Spec == Init /\ [][Next]_vars

---------------------------------------------------------------------------
(* Status merging on its own: updateRetStatus applied by a chain whose steps *)
(* return arbitrary statuses and messages                                   *)

\* Bound on the number of results merged.
MaxMerges == 3

\* The messages argument of a merge: undefined, or one message object.
MergeMessages == {None, Some(<<[jsType |-> "object", ctxId |-> "/X-001", status |-> 0, text |-> "m"]>>)}

\* The result object before the merges is kept in stepResult; a chain starts
\* from status 1, a caller of updateRetStatus from any status.
InitMerge ==
    /\ qnJson0 = mkResource("Questionnaire", Some("q1"))
    /\ heap = <<qnJson0>>
    /\ options = None
    /\ pc = "merge"
    /\ api = "updateRetStatus"
    /\ vFrom = ""
    /\ vTo = ""
    /\ converters = <<>>
    /\ versionChain = <<>>
    /\ stepNo = 0
    /\ \E s \in StatusCodes : stepResult = [status |-> s, message |-> None, data |-> 1]
    /\ finalResult = [status |-> stepResult.status, message |-> None, data |-> None]
    /\ stepLog = <<>>
    /\ error = ""

\* updateRetStatus(finalResult, status, message), as in the loop of
\* chainedConverter, for any status and message.
Merge(status, message) ==
    /\ pc = "merge"
    /\ stepNo < MaxMerges
    /\ finalResult' = updateRetStatus(finalResult, status, message)
    /\ stepLog' = Append(stepLog, [status |-> status, message |-> message,
                                   after |-> updateRetStatus(finalResult, status, message).status])
    /\ stepNo' = stepNo + 1
    /\ UNCHANGED <<heap, qnJson0, options, api, vFrom, vTo, pc, converters, versionChain, stepResult, error>>

NextMerge == \E status \in StatusCodes, message \in MergeMessages : Merge(status, message)

SpecMerge == InitMerge /\ [][NextMerge]_vars

---------------------------------------------------------------------------
(* Conversions one after the other: the application converts a document and *)
(* then converts the result again.  Each call of convert() is one step.     *)

\* Bound on the number of conversions in a row.
MaxLegs == 2

\* The body of the for loop of chainedConverter, r being what the converter
\* returned: stepResult = r; updateRetStatus(finalResult, r.status, r.message).
\* fresh tells whether data is still the caller's object.
mergeStep(ret, r) ==
    [status |-> updateRetStatus(ret, r.status, r.message).status,
     message |-> updateRetStatus(ret, r.status, r.message).message,
     data |-> r.data,
     fresh |-> ret.fresh \/ r.fresh]

\* The for loop of chainedConverter over the converters not yet run.
RECURSIVE runConverters(_, _, _)
runConverters(ret, convs, opts) ==
    IF convs = <<>> THEN ret
    ELSE runConverters(mergeStep(ret, callConverter(Val(Head(convs)), ret.data, opts)), Tail(convs), opts)

\* The end of chainedConverter: updateMeta on the data, and the return.
stampResult(ret, f, t, opts) == [ret EXCEPT !.data = updateMeta(ret.data, f, t, opts)]

\* getConverter(f, t)(qn, opts) for two distinct registered versions: the
\* result object, with its data as a value.
chainedResult(qn, f, t, opts) ==
    stampResult(runConverters([status |-> 1, message |-> None, data |-> qn, fresh |-> FALSE],
                              getConverter(f, t).converters, opts),
                f, t, opts)

\* An R5 item of the given type and answerConstraint, with an answerOption
\* list, an answerValueSet, or neither.
constraintItem(linkId, type, constraint, list) ==
    [mkItem(linkId, type) EXCEPT
        !.answerConstraint = constraint,
        !.answerOption = IF list = "answerOption" THEN Some(<<mkOpt("Coding", "c")>>) ELSE None,
        !.answerValueSet = IF list = "answerValueSet" THEN Some(<<"http", "://example.org/ValueSet/v">>) ELSE None]

\* R5 items with every answerConstraint value, at the top level and nested.
constraintItems(type, list) ==
    << constraintItem("/C-1", type, None, list),
       [constraintItem("/C-2", type, Some("optionsOnly"), list) EXCEPT
            !.item = Some(<<constraintItem("/C-3", type, Some("optionsOrType"), list)>>)],
       constraintItem("/C-4", type, Some("optionsOrString"), list) >>

\* The R5-only root fields: none, versionAlgorithmString and copyrightLabel,
\* or versionAlgorithmCoding.
withRootFields(qn, root) ==
    CASE root = "string" -> [qn EXCEPT !.versionAlgorithmString = Some("semver"),
                                       !.copyrightLabel = Some("(c) LHC")]
      [] root = "coding" -> [qn EXCEPT !.versionAlgorithmCoding = Some("coding:semver")]
      [] OTHER -> qn

\* Items with only linkId, type and text, of the given types.
typedItems(types) == [i \in DOMAIN types |-> mkItem("/T-" \o ToString(i), types[i])]

\* A questionnaire with the given items.
questionnaireOf(items) == [mkResource("Questionnaire", Some("q1")) EXCEPT !.item = Some(items)]

\* STU3 items with both forms of enableWhen, an option list, an initial[x]
\* and an options container whose reference has the given scheme.
Stu3RoundTripItems(scheme) ==
    << [mkItem("/X-001", "string") EXCEPT !.initialX = <<[kind |-> "String", value |-> "Mint"]>>],
       [mkItem("/X-002", "choice") EXCEPT
            !.enableWhen = Some(<<mkEw("/X-001", None, Some("true"), <<>>),
                                  mkEw("/X-001", None, None, <<[kind |-> "String", value |-> "Mint"]>>),
                                  mkEw("/X-001", None, Some("false"), <<>>)>>),
            !.options = Some([reference |-> Some(<<scheme, "://ocean-beach.com/ValueSet/beach">>)]),
            !.item = Some(<<[mkItem("/X-002a", "open-choice") EXCEPT
                                !.enableWhen = Some(<<mkEw("/X-002", None, None, <<[kind |-> "Coding", value |-> "c"]>>)>>),
                                !.option = Some(<<mkOpt("Coding", "c"), mkOpt("Coding", "o")>>)]>>)] >>

\* The resources, before meta is added, that are documents of the given
\* version.
TripBodies(v) ==
    {mkResource("Patient", Some("p1"))} \cup
    CASE v = "STU3" -> {questionnaireOf(Stu3Items),
                        questionnaireOf(Stu3RoundTripItems("http")),
                        questionnaireOf(Stu3RoundTripItems("urn")),
                        questionnaireOf(typedItems(<<"string", "choice", "open-choice", "group">>))}
      [] v = "R5" -> {questionnaireOf(R5Items),
                      questionnaireOf(typedItems(<<"string", "coding", "group">>))}
                     \cup {withRootFields(questionnaireOf(constraintItems(type, list)), root) :
                            type \in {"coding", "string"},
                            list \in {"none", "answerOption", "answerValueSet"},
                            root \in {"none", "string", "coding"}}
      [] OTHER -> {[questionnaireOf(R4Items) EXCEPT !.derivedFrom = Some("http://standard-qn-repo.org/qn-100")],
                   questionnaireOf(typedItems(<<"string", "choice", "open-choice", "group">>))}

\* meta absent, or with one profile and one tag.
TripMetas == {None, Some([profile |-> Some(<<profileNo(1)>>), tag |-> Some(<<tagNo(1)>>)])}

TripDocuments(v) == {[b EXCEPT !.meta = m] : b \in TripBodies(v), m \in TripMetas}

\* vFrom is the version of the caller's document, vTo the version of the
\* latest result; stepLog is the log of the conversions made.
InitTrip ==
    /\ vFrom \in supportedVersions
    /\ vTo = vFrom
    /\ qnJson0 \in TripDocuments(vFrom)
    /\ heap = <<qnJson0>>
    /\ options \in OptionsSet
    /\ pc = "trip"
    /\ api = "convert"
    /\ converters = <<>>
    /\ versionChain = <<>>
    /\ stepNo = 0
    /\ stepResult = [status |-> 1, message |-> None, data |-> 1]
    /\ finalResult = [status |-> 1, message |-> None, data |-> None]
    /\ stepLog = <<>>
    /\ error = ""

\* convert(latest, vTo, t, options) returned ret: its data is a new object
\* unless every converter of the chain returned its argument.
Converted(t, ret) ==
    /\ heap' = IF ret.fresh THEN Append(heap, ret.data) ELSE [heap EXCEPT ![Len(heap)] = ret.data]
    /\ finalResult' = [status |-> ret.status, message |-> ret.message,
                       data |-> Some(IF ret.fresh THEN Len(heap) + 1 ELSE Len(heap))]
    /\ stepLog' = Append(stepLog, [from |-> vTo, to |-> t, status |-> ret.status, message |-> ret.message,
                                   data |-> IF ret.fresh THEN Len(heap) + 1 ELSE Len(heap)])
    /\ vTo' = t
    /\ stepNo' = stepNo + 1
    /\ UNCHANGED <<qnJson0, options, api, vFrom, pc, converters, versionChain, stepResult, error>>

\* The application converts the latest document to another version.
Convert(t) ==
    /\ pc = "trip"
    /\ stepNo < MaxLegs
    /\ t # vTo
    /\ Converted(t, chainedResult(heap[Len(heap)], vTo, t, options))

NextTrip == \E t \in supportedVersions : Convert(t)

SpecTrip == InitTrip /\ [][NextTrip]_vars

---------------------------------------------------------------------------
(* The claims *)

\* The four registered version tokens.
Registered(v) == v \in {"STU3", "R4", "R4B", "R5"}

\* The registry position (0-based) of a registered version.
registryIndex(v) == CHOOSE i \in 0..(Len(qnConverterTable) - 1) : qnConverterTable[i + 1].ver = v

\* The request names two distinct registered versions.
DistinctRegistered == Registered(vFrom) /\ Registered(vTo) /\ vFrom # vTo

\* The document that the returned result's data field refers to.
output == heap[Val(finalResult.data)]

\* C1: for every pair of distinct registered versions and every input
\* document, once the converter has returned, the caller's document has the
\* value it had when the call was made.
C1_InputUnchanged ==
    (pc = "done" /\ DistinctRegistered) => heap[1] = qnJson0

\* C2: getConverter(v, v) is null for every registered v, and for two distinct
\* registered versions the converter is not null and its chain has as many
\* converters as the distance between the two registry indexes.
C2_ChainLength ==
    /\ (api = "getConverter" /\ Registered(vFrom) /\ vFrom = vTo) => (pc = "null" /\ converters = <<>>)
    /\ (api # "" /\ DistinctRegistered) =>
            /\ pc \notin {"null", "thrown"}
            /\ Len(converters) = Abs(registryIndex(vTo) - registryIndex(vFrom))

C2_Witness ==
    /\ api = "getConverter" /\ pc = "ready"
    /\ vFrom = "STU3" /\ vTo = "R5" /\ Len(converters) = 3

\* C3: for two distinct registered versions the chain holds, in execution
\* order, the up converter of each version from the source up to but excluding
\* the target when the target has the higher index, and otherwise the down
\* converter of each version from the source down to but excluding the target;
\* every entry is a converter of the table, never a missing one; the version
\* chain starts at the source, ends at the target and moves by one index per
\* step.
C3_ChainShape ==
    (api # "" /\ DistinctRegistered) =>
        /\ Len(versionChain) = Len(converters) + 1
        /\ versionChain[1] = vFrom
        /\ versionChain[Len(versionChain)] = vTo
        /\ \A i \in 1..Len(converters) :
            /\ Has(converters[i])
            /\ registryIndex(versionChain[i]) =
                    registryIndex(vFrom) + (IF registryIndex(vFrom) < registryIndex(vTo) THEN i - 1 ELSE 1 - i)
            /\ registryIndex(versionChain[i + 1]) - registryIndex(versionChain[i]) =
                    (IF registryIndex(vFrom) < registryIndex(vTo) THEN 1 ELSE -1)
            /\ converters[i] =
                    IF registryIndex(vFrom) < registryIndex(vTo)
                    THEN qnConverterTable[registryIndex(versionChain[i]) + 1].up_conv
                    ELSE qnConverterTable[registryIndex(versionChain[i]) + 1].down_conv

C3_Witness ==
    /\ pc = "ready" /\ vFrom = "R5" /\ vTo = "STU3"
    /\ converters = <<Some("qnR5ToR4"), Some("qnNoOpConv"), Some("qnR4ToR3")>>
    /\ versionChain = <<"R5", "R4B", "R4", "STU3">>

\* C4: getConverter(from, to) returns null, and raises no error, whenever from
\* or to is a string other than the four registered tokens, names inherited
\* by a plain object included.
C4_UnknownIsNull ==
    (api = "getConverter" /\ ~(Registered(vFrom) /\ Registered(vTo))) => (pc = "null" /\ error = "")

\* C5: a request through convert() for one registered version twice, or for
\* an unknown version, performs no conversion and does not throw.
C5_ConvertDoesNotThrow ==
    (api = "convert" /\ ((Registered(vFrom) /\ vFrom = vTo) \/ ~Registered(vFrom) \/ ~Registered(vTo))) =>
        (pc # "thrown" /\ error = "" /\ heap = <<qnJson0>>)

\* C6: for every pair of distinct registered versions, converting a document
\* whose resourceType is not Questionnaire gives status 0 and data equal to
\* the input document as it was passed.
C6_NotQuestionnaireUnchanged ==
    (pc = "done" /\ DistinctRegistered /\ qnJson0.resourceType # "Questionnaire") =>
        (finalResult.status = 0 /\ output = qnJson0)

\* C7: after a conversion that produced data, for every pair of distinct
\* registered versions, every chain length and every profile list of the
\* input, data.meta.profile is the list of exactly the registry profile of the
\* target version.
C7_TargetProfileOnly ==
    (pc = "done" /\ DistinctRegistered) =>
        /\ Has(finalResult.data)
        /\ Has(output.meta)
        /\ Val(output.meta).profile = Some(<<qnConverterTable[registryIndex(vTo) + 1].profile>>)

C7_Witness ==
    /\ pc = "done" /\ vFrom = "R5" /\ vTo = "STU3"
    /\ qnJson0.resourceType = "Questionnaire"
    /\ Len(profilesOf(qnJson0)) = 2
    /\ Val(output.meta).profile = Some(<<"http://hl7.org/fhir/3.0/StructureDefinition/Questionnaire">>)

\* C8: with tagging on, for every pair of distinct registered versions and
\* every chain length, no step of the chain appends or removes a tag, and the
\* output's meta.tag is the input's tags in their order followed by exactly
\* one tag, with code lhc-qnvconv-<from>-to-<to>.
C8_ExactlyOneTag ==
    (tagConvOn(options) /\ DistinctRegistered) =>
        /\ pc = "loop" => tagsOf(deref(stepResult.data)) = tagsOf(qnJson0)
        /\ pc = "done" =>
            /\ Len(tagsOf(output)) = Len(tagsOf(qnJson0)) + 1
            /\ SubSeq(tagsOf(output), 1, Len(tagsOf(qnJson0))) = tagsOf(qnJson0)
            /\ tagsOf(output)[Len(tagsOf(output))].code = "lhc-qnvconv-" \o vFrom \o "-to-" \o vTo

\* C9: with options.tag_conv false, for every pair of distinct registered
\* versions, no step appends a tag: the output's meta.tag equals the input's.
C9_NoTagWhenDisabled ==
    (pc = "done" /\ DistinctRegistered /\ ~tagConvOn(options)) =>
        metaOf(output).tag = metaOf(qnJson0).tag

\* The statuses merged so far.
mergedStatuses == {stepLog[i].status : i \in DOMAIN stepLog}

\* The orders in which the merged results can be taken.
mergeOrders == {p \in [DOMAIN stepLog -> DOMAIN stepLog] : \A i, j \in DOMAIN stepLog : p[i] = p[j] => i = j}

\* C10: updateRetStatus leaves ret.status at the minimum of its previous value
\* and the given status, for all statuses 1, 0, -1, -2; so the status after a
\* sequence of merges is the minimum of the starting status (1 for a chain)
\* and the merged statuses, it never increases from one merge to the next,
\* and it is the same in whatever order the results are merged.
C10_StatusIsMinimum ==
    pc = "merge" =>
        /\ finalResult.status = SetMin({stepResult.status} \cup mergedStatuses)
        /\ \A i \in DOMAIN stepLog :
            /\ stepLog[i].after = Min2(IF i = 1 THEN stepResult.status ELSE stepLog[i - 1].after,
                                       stepLog[i].status)
            /\ stepLog[i].after <= (IF i = 1 THEN stepResult.status ELSE stepLog[i - 1].after)
        /\ \A p \in mergeOrders :
            mergeSubRets([status |-> stepResult.status, message |-> None],
                         [i \in DOMAIN stepLog |-> stepLog[p[i]]]).status = finalResult.status

C10_Witness ==
    /\ pc = "merge" /\ stepNo = 3
    /\ stepResult.status = 1
    /\ [i \in DOMAIN stepLog |-> stepLog[i].status] = <<-1, 1, 0>>
    /\ finalResult.status = -1

\* The messages of the steps run so far, one after the other.
stepMessages == Concat([i \in DOMAIN stepLog |-> IF Has(stepLog[i].message) THEN Val(stepLog[i].message) ELSE <<>>])

\* C11: a chained converter calls every converter of its chain exactly once,
\* in chain order, each on the data the previous step returned (the first on
\* the caller's document), whatever status the earlier steps reported; the
\* messages of the result are the messages of the steps in step order, none
\* removed and none merged with an equal one.
C11_EveryStepOnceInOrder ==
    pc \in {"loop", "done"} =>
        /\ Len(stepLog) = stepNo
        /\ pc = "done" => stepNo = Len(converters)
        /\ \A i \in DOMAIN stepLog :
            /\ Some(stepLog[i].conv) = converters[i]
            /\ stepLog[i].input = (IF i = 1 THEN 1 ELSE stepLog[i - 1].data)
        /\ pc = "done" => Val(finalResult.data) = (IF stepLog = <<>> THEN 1 ELSE stepLog[Len(stepLog)].data)
        /\ (IF Has(finalResult.message) THEN Val(finalResult.message) ELSE <<>>) = stepMessages
        /\ Has(finalResult.message) <=> (\E i \in DOMAIN stepLog : Has(stepLog[i].message))

\* A chain of three steps whose first step reported a warning, run to the
\* end, with the same message recorded by two steps.
C11_Witness ==
    /\ pc = "done" /\ Len(stepLog) = 3
    /\ stepLog[1].status = 0
    /\ [i \in DOMAIN stepLog |-> stepLog[i].conv] = <<"qnR3ToR4", "qnNoOpConv", "qnR4ToR5">>
    /\ Len(Val(finalResult.message)) = 2
    /\ Val(finalResult.message)[1] = Val(finalResult.message)[2]

\* The item tree of an element: the linkId of every item, in place.
RECURSIVE itemTree(_)
itemTree(ele) ==
    [i \in DOMAIN subItems(ele) |-> [linkId |-> subItems(ele)[i].linkId, item |-> itemTree(subItems(ele)[i])]]

\* C12: for every pair of distinct registered versions and every
\* Questionnaire, the converted document has the id and url of the input and
\* the same item tree: as many items at every level, in the same nesting and
\* order, with the same linkId at every position.
C12_TreePreserved ==
    (pc = "done" /\ DistinctRegistered /\ qnJson0.resourceType = "Questionnaire") =>
        /\ output.id = qnJson0.id
        /\ output.url = qnJson0.url
        /\ itemTree(output) = itemTree(qnJson0)

\* A three-step conversion with losses of a questionnaire that has nested items.
C12_Witness ==
    /\ pc = "done" /\ vFrom = "R5" /\ vTo = "STU3"
    /\ qnJson0.resourceType = "Questionnaire"
    /\ finalResult.status = -1
    /\ Len(itemTree(qnJson0)) = 2
    /\ Len(itemTree(qnJson0)[2].item) = 1
    /\ itemTree(output) = itemTree(qnJson0)
    /\ output.item # qnJson0.item

\* The result of a call run step by step is the result of chainedResult.
ChainedResultAgrees ==
    pc = "done" =>
        /\ output = chainedResult(qnJson0, vFrom, vTo, options).data
        /\ finalResult.status = chainedResult(qnJson0, vFrom, vTo, options).status
        /\ finalResult.message = chainedResult(qnJson0, vFrom, vTo, options).message

\* The items of an element at every level, parents before their children.
RECURSIVE flatItems(_)
flatItems(ele) ==
    Concat([i \in DOMAIN subItems(ele) |-> <<subItems(ele)[i]>> \o flatItems(subItems(ele)[i])])

\* The element carries an extension tagged with the given FHIR version.
hasIntVerExt(ele, fhirVer) ==
    \E i \in DOMAIN extensionsOf(ele) : StartsWith(extensionsOf(ele)[i].url, intVerExtPrefix(fhirVer))

\* The legs of the conversions made so far are the given versions in a row.
legsAre(versions) ==
    /\ pc = "trip"
    /\ Len(stepLog) = Len(versions) - 1
    /\ \A i \in DOMAIN stepLog : stepLog[i].from = versions[i] /\ stepLog[i].to = versions[i + 1]

\* The document returned by the latest conversion.
latest == heap[Len(heap)]

\* C13: for every R5 questionnaire, R5 to R4 with options.interVerExt and then
\* R4 to R5 gives back the original root versionAlgorithm[x] and
\* copyrightLabel and the original answerConstraint of every item, and leaves
\* no extension tagged 5.0 on the document or on any item.
C13_ExtensionRoundTrip ==
    (legsAre(<<"R5", "R4", "R5">>) /\ interVerExtOn(options) /\ qnJson0.resourceType = "Questionnaire") =>
        /\ latest.versionAlgorithmString = qnJson0.versionAlgorithmString
        /\ latest.versionAlgorithmCoding = qnJson0.versionAlgorithmCoding
        /\ latest.copyrightLabel = qnJson0.copyrightLabel
        /\ Len(flatItems(latest)) = Len(flatItems(qnJson0))
        /\ \A i \in DOMAIN flatItems(qnJson0) :
                flatItems(latest)[i].answerConstraint = flatItems(qnJson0)[i].answerConstraint
        /\ ~hasIntVerExt(latest, "5.0")
        /\ \A i \in DOMAIN flatItems(latest) : ~hasIntVerExt(flatItems(latest)[i], "5.0")

\* The numeric FHIR version of a registered version, as in its profile URL.
fhirVerOf(v) ==
    CASE v = "STU3" -> "3.0" [] v = "R4" -> "4.0" [] v = "R4B" -> "4.3" [] OTHER -> "5.0"

\* C14: after a conversion, for every target and source version, neither the
\* converted document nor any of its items carries an extension whose URL
\* starts with the inter-version prefix of the target's FHIR version,
\* whatever extensions the input carried.
C14_NoTargetVersionExtension ==
    (pc = "done" /\ DistinctRegistered /\ qnJson0.resourceType = "Questionnaire") =>
        /\ ~hasIntVerExt(output, fhirVerOf(vTo))
        /\ \A i \in DOMAIN flatItems(output) : ~hasIntVerExt(flatItems(output)[i], fhirVerOf(vTo))

\* The codes of the tags that updateMeta appends.
stampCodes == {"lhc-qnvconv-" \o f \o "-to-" \o t : f \in supportedVersions, t \in supportedVersions}

\* A document without the metadata stamp: meta.profile, and the tags of
\* meta.tag that updateMeta appended.
withoutStamp(qn) ==
    [qn EXCEPT !.meta = Some([profile |-> None,
                              tag |-> IF Has(metaOf(qn).tag)
                                      THEN Some(SelectSeq(tagsOf(qn), LAMBDA g : g.code \notin stampCodes))
                                      ELSE None])]

\* C15: for every STU3 document and the same options, the data of
\* getConverter(STU3, R5) equals, apart from the metadata stamp, the data of
\* getConverter(STU3, R4) followed by getConverter(R4, R5) on its output.
C15_ChainEqualsTwoCalls ==
    legsAre(<<"STU3", "R4", "R5">>) =>
        withoutStamp(latest) = withoutStamp(chainedResult(qnJson0, "STU3", "R5", options).data)

\* The two ways give documents that differ in the stamp only, for a
\* questionnaire with STU3 enableWhen, options and initial[x].
C15_Witness ==
    /\ legsAre(<<"STU3", "R4", "R5">>)
    /\ qnJson0.item = Some(Stu3Items)
    /\ tagConvOn(options)
    /\ latest # chainedResult(qnJson0, "STU3", "R5", options).data
    /\ withoutStamp(latest) = withoutStamp(chainedResult(qnJson0, "STU3", "R5", options).data)
    /\ latest.item # qnJson0.item

\* linkId, type and text of every item, in place.
plainFields(qn) ==
    [i \in DOMAIN flatItems(qn) |->
        [linkId |-> flatItems(qn)[i].linkId, type |-> flatItems(qn)[i].type, text |-> flatItems(qn)[i].text]]

\* The items carry nothing but linkId, type and text.
onlyPlainItems(qn) ==
    /\ qn.resourceType = "Questionnaire"
    /\ flatItems(qn) # <<>>
    /\ \A i \in DOMAIN flatItems(qn) :
            flatItems(qn)[i] = mkItem(Val(flatItems(qn)[i].linkId), flatItems(qn)[i].type)

\* C16: for every pair of distinct registered versions A and B and every item
\* that carries only a linkId, a type valid in A and a text, converting A to B
\* and then B to A returns an item with the same linkId, type and text.
C16_PlainRoundTrip ==
    (pc = "trip" /\ Len(stepLog) = 2 /\ stepLog[2].to = vFrom /\ onlyPlainItems(qnJson0)) =>
        plainFields(latest) = plainFields(qnJson0)

\* An R4 questionnaire with a choice and an open-choice item, to R5 and back.
C16_Witness ==
    /\ legsAre(<<"R4", "R5", "R4">>)
    /\ onlyPlainItems(qnJson0)
    /\ [i \in DOMAIN flatItems(qnJson0) |-> flatItems(qnJson0)[i].type] = <<"string", "choice", "open-choice", "group">>
    /\ [i \in DOMAIN flatItems(heap[stepLog[1].data]) |-> flatItems(heap[stepLog[1].data])[i].type]
            = <<"string", "coding", "coding", "group">>
    /\ plainFields(latest) = plainFields(qnJson0)

\* item.enableWhen || []
enableWhenOf(item) == IF Has(item.enableWhen) THEN Val(item.enableWhen) ELSE <<>>

\* The ways to pick m of n list positions in increasing order.
pickInOrder(m, n) == {g \in [1..m -> 1..n] : \A j, k \in 1..m : j < k => g[j] < g[k]}

\* b is what C17 says the STU3 condition a becomes in R4.
ewAsR4(a, b) ==
    /\ b.question = a.question
    /\ b.hasAnswer = None
    /\ IF Has(a.hasAnswer)
       THEN b.operator = Some("exists") /\ b.answer = <<[kind |-> "Boolean", value |-> Val(a.hasAnswer)]>>
       ELSE b.operator = Some("=") /\ b.answer = a.answer

\* The R4 list after is the STU3 list before with some conditions without
\* hasAnswer left out, the others converted, in their order.
enableWhenAsR4(before, after) ==
    /\ Len(after) <= Len(before)
    /\ \E g \in pickInOrder(Len(after), Len(before)) :
        /\ \A k \in DOMAIN before : Has(before[k].hasAnswer) => \E j \in DOMAIN after : g[j] = k
        /\ \A j \in DOMAIN after : ewAsR4(before[g[j]], after[j])

\* C17: converting STU3 to R4, every enableWhen condition with a hasAnswer
\* field becomes operator "exists" with answerBoolean equal to the former
\* hasAnswer (hasAnswer removed), every other retained condition gets operator
\* "=" with its answer[x] unchanged, and retained conditions keep their order.
C17_EnableWhenToR4 ==
    (pc = "done" /\ vFrom = "STU3" /\ vTo = "R4" /\ qnJson0.resourceType = "Questionnaire") =>
        \A i \in DOMAIN flatItems(qnJson0) :
            enableWhenAsR4(enableWhenOf(flatItems(qnJson0)[i]), enableWhenOf(flatItems(output)[i]))

\* The second item of the STU3 questionnaire: hasAnswer true, answerUri (not
\* kept), answerString, hasAnswer false.
C17_Witness ==
    /\ pc = "done" /\ vFrom = "STU3" /\ vTo = "R4"
    /\ qnJson0.item = Some(Stu3Items)
    /\ Len(enableWhenOf(flatItems(qnJson0)[2])) = 4
    /\ [j \in 1..3 |-> enableWhenOf(flatItems(output)[2])[j].operator] = <<Some("exists"), Some("="), Some("exists")>>
    /\ [j \in 1..3 |-> enableWhenOf(flatItems(output)[2])[j].answer] =
            << <<[kind |-> "Boolean", value |-> "true"]>>,
               <<[kind |-> "String", value |-> "Mint"]>>,
               <<[kind |-> "Boolean", value |-> "false"]>> >>

\* The conditions of the list that STU3 can express, and the others.
stu3Conditions(list) == SelectSeq(list, LAMBDA ew : ew.operator \in {Some("exists"), Some("=")})

otherConditions(list) == SelectSeq(list, LAMBDA ew : ew.operator \notin {Some("exists"), Some("=")})

\* The operator as the message text shows it.
operatorText(ew) == IF Has(ew.operator) THEN Val(ew.operator) ELSE "undefined"

\* The positions of the loss messages about enableWhen operators of the item.
operatorLosses(msgs, item) ==
    {k \in DOMAIN msgs :
        /\ msgs[k].jsType = "object"
        /\ msgs[k].ctxId = Val(item.linkId)
        /\ msgs[k].status = -1
        /\ \E j \in DOMAIN otherConditions(enableWhenOf(item)) :
              msgs[k].text = "Unable to convert enableWhen with operator "
                             \o operatorText(otherConditions(enableWhenOf(item))[j])}

\* The messages of the result; none when the field is unset.
resultMessages == IF Has(finalResult.message) THEN Val(finalResult.message) ELSE <<>>

\* What C18 says of one R4 item and the STU3 item made of it.
droppedOperators(before, after, msgs) ==
    /\ Len(enableWhenOf(after)) = Len(stu3Conditions(enableWhenOf(before)))
    /\ \A j \in DOMAIN enableWhenOf(after) :
          /\ enableWhenOf(after)[j].question = stu3Conditions(enableWhenOf(before))[j].question
          /\ enableWhenOf(after)[j].operator = None
    /\ Cardinality(operatorLosses(msgs, before)) = Len(otherConditions(enableWhenOf(before)))
    /\ (enableWhenOf(before) # <<>> /\ stu3Conditions(enableWhenOf(before)) = <<>>) => after.enableWhen = None
    /\ otherConditions(enableWhenOf(before)) # <<>> => finalResult.status = -1

\* C18: converting R4 to STU3, every enableWhen condition whose operator is
\* neither "exists" nor "=" is dropped, exactly one loss message (status -1)
\* with the owning item's linkId as ctxId is recorded per dropped condition,
\* the enableWhen field is absent when all conditions of the item are
\* dropped, and the result status is -1.
C18_OperatorsDropped ==
    (pc = "done" /\ vFrom = "R4" /\ vTo = "STU3" /\ qnJson0.resourceType = "Questionnaire") =>
        \A i \in DOMAIN flatItems(qnJson0) :
            droppedOperators(flatItems(qnJson0)[i], flatItems(output)[i], resultMessages)

\* The R4 questionnaire whose second item loses one of three conditions and
\* whose nested item loses both of its conditions.
C18_Witness ==
    /\ pc = "done" /\ vFrom = "R4" /\ vTo = "STU3"
    /\ qnJson0.item = Some(R4Items)
    /\ Len(otherConditions(enableWhenOf(flatItems(qnJson0)[2]))) = 1
    /\ Len(enableWhenOf(flatItems(output)[2])) = 2
    /\ Len(otherConditions(enableWhenOf(flatItems(qnJson0)[3]))) = 2
    /\ flatItems(output)[3].enableWhen = None
    /\ Cardinality(operatorLosses(resultMessages, flatItems(qnJson0)[3])) = 2
    /\ finalResult.status = -1

\* An R5 item of type coding with answerConstraint optionsOrType and a
\* non-empty answerOption list.
codingOptionsOrType(item) ==
    /\ item.type = "coding"
    /\ item.answerConstraint = Some("optionsOrType")
    /\ Has(item.answerOption) /\ Val(item.answerOption) # <<>>

\* The result carries the warning about the item.
openChoiceWarning(msgs, item) ==
    \E k \in DOMAIN msgs :
        /\ msgs[k].jsType = "object"
        /\ msgs[k].ctxId = Val(item.linkId)
        /\ msgs[k].status = 0
        /\ msgs[k].text = "optionsOrType with type coding is converted as open-choice"

\* C19: converting R5 to R4, an item of type coding with answerConstraint
\* optionsOrType and a non-empty answerOption list becomes type open-choice,
\* a warning message (status 0) with the item's linkId as ctxId is recorded,
\* and the answerConstraint field is absent from the output item.
C19_CodingOptionsOrType ==
    (pc = "done" /\ vFrom = "R5" /\ vTo = "R4" /\ qnJson0.resourceType = "Questionnaire") =>
        \A i \in DOMAIN flatItems(qnJson0) :
            codingOptionsOrType(flatItems(qnJson0)[i]) =>
                /\ flatItems(output)[i].type = "open-choice"
                /\ flatItems(output)[i].answerConstraint = None
                /\ openChoiceWarning(resultMessages, flatItems(qnJson0)[i])

\* The first item of the R5 questionnaire, converted with inter-version
\* extensions requested.
C19_Witness ==
    /\ pc = "done" /\ vFrom = "R5" /\ vTo = "R4"
    /\ qnJson0.item = Some(R5Items)
    /\ interVerExtOn(options)
    /\ codingOptionsOrType(flatItems(qnJson0)[1])
    /\ flatItems(output)[1].type = "open-choice"
    /\ openChoiceWarning(resultMessages, flatItems(qnJson0)[1])

\* The entry is a message object with a status code, not a bare string.
isMessageRecord(msg) == msg.jsType = "object" /\ msg.status \in {0, -1, -2}

\* C20: every entry of the message list of a conversion result, for every
\* version pair and every option setting, is a Message record (ctxId, a
\* status in {0, -1, -2}, text); in particular the dropped R5-only fields and
\* the unusable inter-version extensions are reported by such records.
C20_MessagesAreRecords ==
    pc = "done" => \A k \in DOMAIN resultMessages : isMessageRecord(resultMessages[k])

\* The STU3 condition compares with an answerUri or an answerAttachment.
uriOrAttachment(ew) ==
    ~Has(ew.hasAnswer) /\ ew.answer # <<>> /\ ew.answer[1].kind \in {"Uri", "Attachment"}

\* The positions of the loss messages about such conditions of the item.
uriLosses(msgs, item) ==
    {k \in DOMAIN msgs :
        /\ msgs[k].jsType = "object"
        /\ msgs[k].ctxId = Val(item.linkId)
        /\ msgs[k].status = -1
        /\ msgs[k].text = "answerUri or answerAttachment dropped from enableWhen "}

\* What C21 says of one STU3 item and the R4 item made of it.
droppedUris(before, after, msgs) ==
    /\ Len(enableWhenOf(after)) = Len(SelectSeq(enableWhenOf(before), LAMBDA ew : ~uriOrAttachment(ew)))
    /\ \A j \in DOMAIN enableWhenOf(after) :
          ewAsR4(SelectSeq(enableWhenOf(before), LAMBDA ew : ~uriOrAttachment(ew))[j], enableWhenOf(after)[j])
    /\ Cardinality(uriLosses(msgs, before)) = Len(SelectSeq(enableWhenOf(before), uriOrAttachment))
    /\ (\A k \in DOMAIN enableWhenOf(before) : uriOrAttachment(enableWhenOf(before)[k])) =>
            after.enableWhen = None

\* C21: converting STU3 to R4, an enableWhen condition whose comparison value
\* is answerUri or answerAttachment is dropped and exactly one loss message
\* (status -1) with the owning item's linkId as ctxId is recorded for it; the
\* other conditions of the item are kept, and enableWhen is removed from the
\* item when no condition remains.
C21_UriConditionsDropped ==
    (pc = "done" /\ vFrom = "STU3" /\ vTo = "R4" /\ qnJson0.resourceType = "Questionnaire") =>
        \A i \in DOMAIN flatItems(qnJson0) :
            droppedUris(flatItems(qnJson0)[i], flatItems(output)[i], resultMessages)

\* The STU3 questionnaire: its second item loses one of four conditions, the
\* nested item loses both of its conditions.
C21_Witness ==
    /\ pc = "done" /\ vFrom = "STU3" /\ vTo = "R4"
    /\ qnJson0.item = Some(Stu3Items)
    /\ Len(enableWhenOf(flatItems(qnJson0)[2])) = 4
    /\ Len(enableWhenOf(flatItems(output)[2])) = 3
    /\ Cardinality(uriLosses(resultMessages, flatItems(qnJson0)[2])) = 1
    /\ Len(enableWhenOf(flatItems(qnJson0)[3])) = 2
    /\ flatItems(output)[3].enableWhen = None
    /\ Cardinality(uriLosses(resultMessages, flatItems(qnJson0)[3])) = 2

\* b is what C22 says the R4 condition a, of operator "exists" or "=", becomes
\* in STU3.
ewAsStu3(a, b) ==
    /\ b.question = a.question
    /\ b.operator = None
    /\ IF a.operator = Some("exists")
       THEN /\ \E m \in DOMAIN a.answer :
                    a.answer[m].kind = "Boolean" /\ b.hasAnswer = Some(a.answer[m].value)
            /\ \A m \in DOMAIN b.answer : b.answer[m].kind # "Boolean"
       ELSE b.answer = a.answer /\ b.hasAnswer = a.hasAnswer

\* A message about the enableWhen operator op.
operatorMessage(msg, op) ==
    msg.jsType = "object" /\ msg.text = "Unable to convert enableWhen with operator " \o op

\* C22: converting R4 to STU3, an enableWhen condition with operator "exists"
\* becomes a condition with hasAnswer equal to its former answerBoolean and
\* with neither operator nor answerBoolean, a condition with operator "="
\* keeps its answer[x] and loses only the operator field, and no message is
\* recorded for either.
C22_EnableWhenToStu3 ==
    (pc = "done" /\ vFrom = "R4" /\ vTo = "STU3" /\ qnJson0.resourceType = "Questionnaire") =>
        /\ \A i \in DOMAIN flatItems(qnJson0) :
            /\ Len(enableWhenOf(flatItems(output)[i])) = Len(stu3Conditions(enableWhenOf(flatItems(qnJson0)[i])))
            /\ \A j \in DOMAIN enableWhenOf(flatItems(output)[i]) :
                    ewAsStu3(stu3Conditions(enableWhenOf(flatItems(qnJson0)[i]))[j],
                             enableWhenOf(flatItems(output)[i])[j])
        /\ \A k \in DOMAIN resultMessages :
                ~operatorMessage(resultMessages[k], "exists") /\ ~operatorMessage(resultMessages[k], "=")

\* The second item of the R4 questionnaire: exists, ">" (not kept), "=".
C22_Witness ==
    /\ pc = "done" /\ vFrom = "R4" /\ vTo = "STU3"
    /\ qnJson0.item = Some(R4Items)
    /\ [j \in 1..3 |-> enableWhenOf(flatItems(qnJson0)[2])[j].operator] = <<Some("exists"), Some(">"), Some("=")>>
    /\ enableWhenOf(flatItems(output)[2]) =
            << mkEw("/X-001", None, Some("true"), <<>>),
               mkEw("/X-001", None, None, <<[kind |-> "String", value |-> "Mint"]>>) >>

\* The schemes of the references in the documents.  A reference with a scheme
\* is held as the scheme followed by the rest, a relative one as one piece.
Schemes == {"http", "urn"}

\* The options container holds an absolute (scheme-qualified) reference.
absoluteReference(container) ==
    /\ Has(container.reference)
    /\ Len(Val(container.reference)) >= 2
    /\ Val(container.reference)[1] \in Schemes

\* The result flags the options of the item as lost.
optionsLoss(msgs, item) ==
    \E k \in DOMAIN msgs :
        /\ msgs[k].jsType = "object"
        /\ msgs[k].ctxId = Val(item.linkId)
        /\ msgs[k].status = -1
        /\ msgs[k].text = "Unable to convert item.options."

\* The reference of the options container starts with 'http'.
httpReference(container) ==
    Has(container.reference) /\ StartsWith(Val(container.reference), <<"http">>)

\* The options container of the item, if any, is one that the claim lets
\* become answerValueSet: absolute, or with the narrower reading, http.
usableOptions(item, httpOnly) ==
    /\ Has(item.options)
    /\ IF httpOnly THEN httpReference(Val(item.options)) ELSE absoluteReference(Val(item.options))

\* What C23 says of one STU3 item and the R4 item made of it.
optionsAsR4(before, after, msgs, httpOnly) ==
    /\ Has(before.option) => after.answerOption = before.option
    /\ usableOptions(before, httpOnly) => after.answerValueSet = Val(before.options).reference
    /\ optionsLoss(msgs, before) <=> (Has(before.options) /\ ~usableOptions(before, httpOnly))
    /\ after.option = None
    /\ after.options = None

\* C23: converting STU3 to R4, per item: an option array becomes answerOption
\* with the same entries in the same order; an options.reference that is
\* absolute (scheme-qualified) becomes answerValueSet with the same value;
\* any other options container is dropped and flagged as a loss (status -1
\* message for the item), and a loss is flagged only then; the output item
\* has neither option nor options.
C23_OptionsToR4 ==
    (pc = "done" /\ vFrom = "STU3" /\ vTo = "R4" /\ qnJson0.resourceType = "Questionnaire") =>
        \A i \in DOMAIN flatItems(qnJson0) :
            optionsAsR4(flatItems(qnJson0)[i], flatItems(output)[i], resultMessages, FALSE)

\* The same with "starts with 'http'" in the place of "absolute": what the
\* conversion of option and options does for every item.
OptionsToR4Http ==
    (pc = "done" /\ vFrom = "STU3" /\ vTo = "R4" /\ qnJson0.resourceType = "Questionnaire") =>
        \A i \in DOMAIN flatItems(qnJson0) :
            optionsAsR4(flatItems(qnJson0)[i], flatItems(output)[i], resultMessages, TRUE)

\* The STU3 questionnaire converted: an http reference, an option array, a
\* urn reference and a relative reference.
OptionsToR4Reached ==
    /\ pc = "done" /\ vFrom = "STU3" /\ vTo = "R4"
    /\ qnJson0.item = Some(Stu3Items)
    /\ flatItems(output)[2].answerValueSet = Some(<<"http", "://ocean-beach.com/ValueSet/beach">>)
    /\ Len(Val(flatItems(output)[3].answerOption)) = 2
    /\ absoluteReference(Val(flatItems(qnJson0)[4].options))
    /\ flatItems(output)[4].answerValueSet = None
    /\ optionsLoss(resultMessages, flatItems(qnJson0)[4])
    /\ optionsLoss(resultMessages, flatItems(qnJson0)[5])
    /\ \A i \in 1..5 : flatItems(output)[i].options = None

\* The positions of the messages of the given status and text about the item.
messagesAbout(msgs, item, status, text) ==
    {k \in DOMAIN msgs :
        /\ msgs[k].jsType = "object"
        /\ msgs[k].ctxId = Val(item.linkId)
        /\ msgs[k].status = status
        /\ msgs[k].text = text}

\* item.answerOption || []
answerOptionOf(item) == IF Has(item.answerOption) THEN Val(item.answerOption) ELSE <<>>

\* The entries without a valueReference, in their order, without initialSelected.
plainOptions(opts) ==
    [j \in DOMAIN SelectSeq(opts, LAMBDA o : o.kind # "Reference") |->
        [kind |-> SelectSeq(opts, LAMBDA o : o.kind # "Reference")[j].kind,
         value |-> SelectSeq(opts, LAMBDA o : o.kind # "Reference")[j].value,
         initialSelected |-> None]]

\* What C24 says of the messages about the answerOption of one R4 item.
optionLosses(before, msgs) ==
    /\ Cardinality(messagesAbout(msgs, before, -1, "deleted answerOption.initialSelected"))
            = Len(SelectSeq(answerOptionOf(before), LAMBDA o : Has(o.initialSelected)))
    /\ Cardinality(messagesAbout(msgs, before, -1, "deleted answerOption.valueReference"))
            = Len(SelectSeq(answerOptionOf(before), LAMBDA o : o.kind = "Reference"))
    /\ Cardinality(messagesAbout(msgs, before, -1, "answerOption entries with valueReference have been dropped."))
            = (IF \E j \in DOMAIN answerOptionOf(before) : answerOptionOf(before)[j].kind = "Reference"
               THEN 1 ELSE 0)

\* What C24 says of one R4 item and the STU3 item made of it.
optionsAsStu3(before, after, msgs) ==
    /\ Has(before.answerValueSet) => after.options = Some([reference |-> before.answerValueSet])
    /\ Has(before.answerOption) =>
            after.option = (IF plainOptions(Val(before.answerOption)) = <<>> THEN None
                            ELSE Some(plainOptions(Val(before.answerOption))))
    /\ optionLosses(before, msgs)
    /\ after.answerOption = None
    /\ after.answerValueSet = None
    /\ after.option # Some(<<>>)

initialOf(item) == IF Has(item.initial) THEN Val(item.initial) ELSE <<>>

\* The positions of the loss messages about the initial list of the item.
initialLosses(msgs, item) ==
    messagesAbout(msgs, item, -1, "Failed to convert item.initial[0")
    \cup messagesAbout(msgs, item, -1, "All but the first item.initial have been dropped.")

\* What C25 says of one R4 item and the STU3 item made of it.
initialAsStu3(before, after, msgs) ==
    /\ after.initial = None
    /\ (initialOf(before) # <<>> /\ initialOf(before)[1].value # <<>>) =>
            /\ \E m \in DOMAIN after.initialX : after.initialX[m] = initialOf(before)[1].value[1]
            /\ Len(after.initialX) <= Len(before.initialX) + 1
    /\ (initialOf(before) = <<>> \/ initialOf(before)[1].value = <<>>) => after.initialX = before.initialX
    /\ (initialLosses(msgs, before) # {}) <=>
            (initialOf(before) # <<>> /\ (Len(initialOf(before)) > 1 \/ initialOf(before)[1].value = <<>>))

\* C25: converting R4 to STU3, an item with a non-empty initial list gets the
\* legacy field initial<Kind> equal to the value<Kind> of the first entry
\* only, the output item never has an initial list, and a loss message
\* (status -1) for the item is recorded if and only if the list has more than
\* one entry or its first entry has no value[x] member.
C25_InitialToStu3 ==
    (pc = "done" /\ vFrom = "R4" /\ vTo = "STU3" /\ qnJson0.resourceType = "Questionnaire") =>
        \A i \in DOMAIN flatItems(qnJson0) :
            initialAsStu3(flatItems(qnJson0)[i], flatItems(output)[i], resultMessages)

\* The R4 questionnaire: an initial list of one entry, one of two entries and
\* one whose first entry has no value[x].
C25_Witness ==
    /\ pc = "done" /\ vFrom = "R4" /\ vTo = "STU3"
    /\ qnJson0.item = Some(R4Items)
    /\ flatItems(output)[1].initialX = <<[kind |-> "String", value |-> "Mint"]>>
    /\ initialLosses(resultMessages, flatItems(qnJson0)[1]) = {}
    /\ Len(initialOf(flatItems(qnJson0)[4])) = 2
    /\ flatItems(output)[4].initialX = <<[kind |-> "Reference", value |-> "Patient/2"]>>
    /\ Cardinality(initialLosses(resultMessages, flatItems(qnJson0)[4])) = 1
    /\ initialOf(flatItems(qnJson0)[5])[1].value = <<>>
    /\ flatItems(output)[5].initialX = <<>>
    /\ Cardinality(initialLosses(resultMessages, flatItems(qnJson0)[5])) = 1

\* The extensions of the element that are not tagged with the FHIR version.
otherExtensions(ele, fhirVer) ==
    SelectSeq(extensionsOf(ele), LAMBDA ext : ~StartsWith(ext.url, intVerExtPrefix(fhirVer)))

\* C26: the R4 to R5 step removes from the document root and from every item,
\* at every depth, every extension whose URL starts with the 5.0
\* inter-version prefix, those of fields outside the recovered set included,
\* whether or not a field was recovered and whatever the options; the
\* extensions with another URL are kept in their order.
C26_TargetExtensionsRemoved ==
    (pc = "done" /\ DistinctRegistered /\ vTo = "R5" /\ qnJson0.resourceType = "Questionnaire") =>
        /\ extensionsOf(output) = otherExtensions(qnJson0, "5.0")
        /\ \A i \in DOMAIN flatItems(qnJson0) :
                extensionsOf(flatItems(output)[i]) = otherExtensions(flatItems(qnJson0)[i], "5.0")

\* The R4 questionnaire converted without options: the root and the nested
\* item keep two of three extensions, the second item loses its only one.
C26_Witness ==
    /\ pc = "done" /\ vFrom = "R4" /\ vTo = "R5"
    /\ qnJson0.item = Some(R4Items)
    /\ options = None
    /\ Len(extensionsOf(qnJson0)) = 3
    /\ [j \in 1..2 |-> extensionsOf(output)[j].value[1].value] = <<"h", "n">>
    /\ hasIntVerExt(flatItems(qnJson0)[2], "5.0")
    /\ extensionsOf(flatItems(output)[2]) = <<>>
    /\ hasIntVerExt(flatItems(qnJson0)[3], "5.0")
    /\ Len(extensionsOf(flatItems(output)[3])) = 2
    /\ flatItems(output)[3].answerConstraint = None

\* The records of the item for the field of R5, in the order they were added.
recordsFor(item, field) ==
    SelectSeq(extensionsOf(item), LAMBDA ext : ext.url = toIntVerExtUrl("5.0", "Questionnaire.item." \o field))

\* The value of the field of the item, "undefined" when it is absent.
fieldValue(item, field) ==
    IF field = "answerConstraint"
    THEN (IF Has(item.answerConstraint) THEN Val(item.answerConstraint) ELSE "undefined")
    ELSE (IF Has(item.disabledDisplay) THEN Val(item.disabledDisplay) ELSE "undefined")

\* The field of the R5 item is the value of the last of the records that the
\* R4 item carries for it.
lastRecordWins(before, after, field) ==
    recordsFor(before, field) # <<>> =>
        fieldValue(after, field) = getKind(recordsFor(before, field)[Len(recordsFor(before, field))].value, "Code")

\* The R4 item has the extensions of the R5 item, the record of its
\* disabledDisplay added at the end.
recordAppended(before, after) ==
    Truthy(before.disabledDisplay) =>
        extensionsOf(after)
            = Append(SelectSeq(extensionsOf(after), LAMBDA ext : ext \in {extensionsOf(before)[j] : j \in DOMAIN extensionsOf(before)}),
                     [url |-> toIntVerExtUrl("5.0", "Questionnaire.item.disabledDisplay"),
                      value |-> <<[kind |-> "Code", value |-> Val(before.disabledDisplay)]>>])

\* C27: addExtension appends the record to the extension list of the element
\* without a uniqueness check, and when an element carries several
\* inter-version extension records with one URL the last one written wins:
\* the R4 to R5 recovery takes the field from the last matching record.
C27_LastRecordWins ==
    (pc = "done" /\ qnJson0.resourceType = "Questionnaire") =>
        /\ (vFrom = "R5" /\ vTo = "R4" /\ interVerExtOn(options)) =>
                \A i \in DOMAIN flatItems(qnJson0) :
                    recordAppended(flatItems(qnJson0)[i], flatItems(output)[i])
        /\ (vFrom = "R4" /\ vTo = "R5") =>
                \A i \in DOMAIN flatItems(qnJson0) :
                    /\ lastRecordWins(flatItems(qnJson0)[i], flatItems(output)[i], "answerConstraint")
                    /\ lastRecordWins(flatItems(qnJson0)[i], flatItems(output)[i], "disabledDisplay")

\* An R5 item of type coding with answer options or an answerValueSet whose
\* answerConstraint is optionsOrString, optionsOnly or absent.
codingWithList(item) ==
    /\ item.type = "coding"
    /\ (Has(item.answerOption) /\ Val(item.answerOption) # <<>>) \/ Has(item.answerValueSet)
    /\ item.answerConstraint \in {None, Some("optionsOnly"), Some("optionsOrString")}

\* The positions of the messages about the item.
messagesFor(msgs, item) ==
    {k \in DOMAIN msgs : msgs[k].jsType = "object" /\ msgs[k].ctxId = Val(item.linkId)}

\* What C28 says of one such R5 item and the R4 item made of it.
perfectChoice(before, after, msgs) ==
    /\ after.type = (IF before.answerConstraint = Some("optionsOrString") THEN "open-choice" ELSE "choice")
    /\ after.answerConstraint = None
    /\ recordsFor(after, "answerConstraint") = recordsFor(before, "answerConstraint")
    /\ ~Has(before.disabledDisplay) =>
            /\ messagesFor(msgs, before) = {}
            /\ after.extension = before.extension

roundTripInput(qn, httpOnly) ==
    \A i \in DOMAIN flatItems(qn) :
        /\ \A k \in DOMAIN enableWhenOf(flatItems(qn)[i]) : ~uriOrAttachment(enableWhenOf(flatItems(qn)[i])[k])
        /\ Has(flatItems(qn)[i].options) => usableOptions(flatItems(qn)[i], httpOnly)

\* C29: for every STU3 questionnaire whose enableWhen conditions use neither
\* answerUri nor answerAttachment and whose options containers hold only an
\* absolute reference, STU3 to R4 and then R4 to STU3 returns an item tree
\* equal to the original: enableWhen, option, options.reference and
\* initial[x] of every item have the same values in the same order.
C29_Stu3RoundTrip ==
    (legsAre(<<"STU3", "R4", "STU3">>) /\ qnJson0.resourceType = "Questionnaire" /\ roundTripInput(qnJson0, FALSE)) =>
        latest.item = qnJson0.item

\* The same for the questionnaires whose options references start with 'http'.
Stu3RoundTripHttp ==
    (legsAre(<<"STU3", "R4", "STU3">>) /\ qnJson0.resourceType = "Questionnaire" /\ roundTripInput(qnJson0, TRUE)) =>
        latest.item = qnJson0.item

\* The questionnaire with the http reference, to R4 and back.
Stu3RoundTripReached ==
    /\ legsAre(<<"STU3", "R4", "STU3">>)
    /\ qnJson0.item = Some(Stu3RoundTripItems("http"))
    /\ flatItems(heap[stepLog[1].data])[2].answerValueSet = Some(<<"http", "://ocean-beach.com/ValueSet/beach">>)
    /\ enableWhenOf(flatItems(heap[stepLog[1].data])[2])[1].operator = Some("exists")
    /\ latest.item = qnJson0.item

\* The statuses of the messages that carry one.
messageStatuses(msgs) ==
    {msgs[k].status : k \in {j \in DOMAIN msgs : msgs[j].jsType = "object"}}

\* C30: for every conversion result, for every version pair, input and
\* option setting, the status is one of 1, 0, -1 (never -2), data is
\* populated, the status is 1 exactly when no message was recorded, and
\* otherwise the status is the lowest status among the recorded messages.
C30_StatusFromMessages ==
    (pc = "trip" /\ stepLog # <<>>) =>
        /\ finalResult.status \in {1, 0, -1}
        /\ Has(finalResult.data)
        /\ finalResult.status = 1 <=> resultMessages = <<>>
        /\ resultMessages # <<>> =>
                /\ messageStatuses(resultMessages) # {}
                /\ finalResult.status = SetMin(messageStatuses(resultMessages))

\* The same for the results whose messages are all message objects.
StatusFromMessageRecords ==
    (pc = "trip" /\ stepLog # <<>> /\ \A k \in DOMAIN resultMessages : resultMessages[k].jsType = "object") =>
        /\ finalResult.status \in {1, 0, -1}
        /\ Has(finalResult.data)
        /\ finalResult.status = 1 <=> resultMessages = <<>>
        /\ resultMessages # <<>> => finalResult.status = SetMin(messageStatuses(resultMessages))

\* Results of every status, with message objects only.
StatusFromMessageRecordsReached ==
    /\ pc = "trip" /\ Len(stepLog) = 2
    /\ stepLog[1].status = 1 /\ stepLog[1].message = None
    /\ finalResult.status = -1
    /\ \E k \in DOMAIN resultMessages : isMessageRecord(resultMessages[k]) /\ resultMessages[k].status = 0
    /\ \A k \in DOMAIN resultMessages : resultMessages[k].jsType = "object"

====
